---- MODULE Spec2Model ----
(***************************************************************************)
(* Entity-component store and world state of christiantreat/game:          *)
(* src/core/component.py, src/core/entity.py, src/core/game_state.py.      *)
(*                                                                         *)
(* Python objects live in a heap of entity objects addressed by reference; *)
(* a Python dict is a sequence of key/value pairs in insertion order; a    *)
(* Python list is a sequence.  A record passed to from_dict is a TLA+      *)
(* record whose DOMAIN holds the keys that are present.                    *)
(***************************************************************************)
EXTENDS Integers, Sequences, FiniteSets, TLC

VARIABLES
    time_of_day,     \* GameState.time_of_day
    day_count,       \* GameState.day_count
    season,          \* GameState.season
    year,            \* GameState.year
    current_weather, \* GameState.current_weather
    player_id,       \* GameState.player_id
    next_id,         \* Entity._next_id (class variable, process-wide)
    heap,            \* the Entity objects, by reference
    managers,        \* the EntityManager objects; managers[1] is GameState.entity_manager
    held,            \* the caller's reference to an entity not (yet) in a manager
    calls,           \* advance_time calls made on the GameState since it was built
    loaded,          \* TRUE when the GameState was built by from_dict
    comp,            \* a component object the caller holds on its own
    store,           \* the dict and list objects that components refer to, by reference
    last             \* the last call made and what it returned

vars == <<time_of_day, day_count, season, year, current_weather, player_id,
          next_id, heap, managers, held, calls, loaded, comp, store, last>>

calendarVars == <<time_of_day, day_count, season, year, calls, loaded>>
worldVars == <<current_weather, player_id>>
entityVars == <<next_id, heap, managers, held>>
componentVars == <<comp, store>>

(***************************************************************************)
(* Bounds of the model.                                                    *)
(***************************************************************************)
MaxCalls == 450     \* advance_time calls followed on one GameState
MaxId == 3          \* largest value Entity._next_id is followed to
MaxObjs == 2        \* Entity objects alive at one time
StateEntities == 2  \* entities of a GameState that is saved and loaded
MaxRecords == 2     \* component records of an entity record with arbitrary tags
MaxHealth == 4      \* largest maximum of a HealthComponent, largest amount of a call
MaxAmount == 4      \* largest amount a CurrencyComponent starts with, largest value of a call
MaxCapacity == 3    \* largest capacity of an InventoryComponent the caller holds
Precision == 5      \* bits of the significand of a float (53 in Python)
MaxMemories == 3    \* largest max_memories of a MemoryComponent the caller holds
FrameCalls == 5     \* advance_time calls followed on a GameState that holds entities

None == 0           \* Python None where an ID or a reference is expected
NoRef == 0

(***************************************************************************)
(* Python dict: pairs [k, v] in insertion order, keys unique.              *)
(***************************************************************************)
DictKeys(d) == {d[i].k : i \in 1..Len(d)}

DictHas(d, key) == \E i \in 1..Len(d) : d[i].k = key

DictGet(d, key, default) ==
    IF DictHas(d, key)
    THEN d[CHOOSE i \in 1..Len(d) : d[i].k = key].v
    ELSE default

DictSet(d, key, value) ==
    IF DictHas(d, key)
    THEN [i \in 1..Len(d) |-> IF d[i].k = key THEN [k |-> key, v |-> value] ELSE d[i]]
    ELSE Append(d, [k |-> key, v |-> value])

DictDel(d, key) == SelectSeq(d, LAMBDA p : p.k # key)

DictValues(d) == [i \in 1..Len(d) |-> d[i].v]

\* list.remove(x): drops the first occurrence of x
ListRemove(s, x) ==
    IF \E i \in 1..Len(s) : s[i] = x
    THEN LET j == CHOOSE i \in 1..Len(s) : s[i] = x /\ \A h \in 1..(i-1) : s[h] # x
         IN  SubSeq(s, 1, j-1) \o SubSeq(s, j+1, Len(s))
    ELSE s

SeqToSet(s) == {s[i] : i \in 1..Len(s)}

\* data.get(key, default) on a record read from a saved file
Get(data, key, default) == IF key \in DOMAIN data THEN data[key] ELSE default

(***************************************************************************)
(* game_state.py: TimeOfDay, Season, Weather                               *)
(***************************************************************************)
TimeOfDay_get_all == <<"morning", "afternoon", "evening", "night">>

Season_get_all == <<"spring", "summer", "fall", "winter">>

Weather_get_all == <<"sunny", "rainy", "cloudy", "stormy", "drought">>

\* list.index(x) as a 0-based index; the caller handles the ValueError case
ListIndex(s, x) == (CHOOSE i \in 1..Len(s) : s[i] = x) - 1

TimeOfDay_get_next(current) ==
    LET times == TimeOfDay_get_all
    IN  IF current \in SeqToSet(times)
        THEN times[((ListIndex(times, current) + 1) % Len(times)) + 1]
        ELSE "morning"

Season_get_next(current) ==
    LET seasons == Season_get_all
    IN  IF current \in SeqToSet(seasons)
        THEN seasons[((ListIndex(seasons, current) + 1) % Len(seasons)) + 1]
        ELSE "spring"

(***************************************************************************)
(* GameState.advance_time on the calendar fields                           *)
(***************************************************************************)
\* advance_time with the day counted on leaving morning instead of on reaching it
advance_time_late_rollover(c) ==
    LET t == TimeOfDay_get_next(c.time_of_day)
        d == IF t = "afternoon" THEN c.day_count + 1 ELSE c.day_count
        turn == t = "afternoon" /\ d % 28 = 0
        s == IF turn THEN Season_get_next(c.season) ELSE c.season
        y == IF turn /\ s = "spring" THEN c.year + 1 ELSE c.year
    IN  [time_of_day |-> t, day_count |-> d, season |-> s, year |-> y]

\* advance_time with the season turned after every 28 rollovers instead of at
\* day_count % 28 = 0
advance_time_season_by_count(c) ==
    LET t == TimeOfDay_get_next(c.time_of_day)
        d == IF t = "morning" THEN c.day_count + 1 ELSE c.day_count
        turn == t = "morning" /\ (d - 1) % 28 = 0
        s == IF turn THEN Season_get_next(c.season) ELSE c.season
        y == IF turn /\ s = "spring" THEN c.year + 1 ELSE c.year
    IN  [time_of_day |-> t, day_count |-> d, season |-> s, year |-> y]

\* advance_time with the year counted at every turn of the season
advance_time_year_every_season(c) ==
    LET t == TimeOfDay_get_next(c.time_of_day)
        d == IF t = "morning" THEN c.day_count + 1 ELSE c.day_count
        turn == t = "morning" /\ d % 28 = 0
        s == IF turn THEN Season_get_next(c.season) ELSE c.season
        y == IF turn THEN c.year + 1 ELSE c.year
    IN  [time_of_day |-> t, day_count |-> d, season |-> s, year |-> y]

\* advance_time with the season turned at day_count % 27 = 0
advance_time_season_every_27(c) ==
    LET t == TimeOfDay_get_next(c.time_of_day)
        d == IF t = "morning" THEN c.day_count + 1 ELSE c.day_count
        turn == t = "morning" /\ d % 27 = 0
        s == IF turn THEN Season_get_next(c.season) ELSE c.season
        y == IF turn /\ s = "spring" THEN c.year + 1 ELSE c.year
    IN  [time_of_day |-> t, day_count |-> d, season |-> s, year |-> y]

advance_time(c) ==
    LET t == TimeOfDay_get_next(c.time_of_day)
        d == IF t = "morning" THEN c.day_count + 1 ELSE c.day_count
        turn == t = "morning" /\ d % 28 = 0
        s == IF turn THEN Season_get_next(c.season) ELSE c.season
        y == IF turn /\ s = "spring" THEN c.year + 1 ELSE c.year
    IN  [time_of_day |-> t, day_count |-> d, season |-> s, year |-> y]

Calendar == [time_of_day |-> time_of_day, day_count |-> day_count,
             season |-> season, year |-> year]

\* n consecutive advance_time calls
RECURSIVE AdvanceN(_, _)
AdvanceN(c, n) == IF n = 0 THEN c ELSE AdvanceN(advance_time(c), n - 1)

(***************************************************************************)
(* component.py: ComponentType, the component classes, COMPONENT_REGISTRY  *)
(*                                                                         *)
(* A component object is a record: component_type (the enum member),       *)
(* entity_id, and the fields of its class.  Floats are integers here.      *)
(***************************************************************************)
ComponentType ==
    [POSITION |-> "position", HEALTH |-> "health", INVENTORY |-> "inventory",
     AI |-> "ai", SENSORY |-> "sensory", MEMORY |-> "memory", GOAL |-> "goal",
     RELATIONSHIP |-> "relationship", SCHEDULE |-> "schedule",
     OCCUPATION |-> "occupation", NEEDS |-> "needs", CURRENCY |-> "currency"]

\* {} written where a dict is expected: a dict object of its own that comes into
\* the store when its component is attached
NewDict == 0

\* Component.__init__: the base fields every component carries
Component_init(component_type) ==
    [component_type |-> component_type, entity_id |-> None]

\* Component.to_dict: the base part of every component record
Component_to_dict(c) ==
    [type |-> ComponentType[c.component_type], entity_id |-> c.entity_id]

PositionComponent(location, x, y) ==
    Component_init("POSITION") @@ [location |-> location, x |-> x, y |-> y]

HealthComponent(current, maximum) ==
    Component_init("HEALTH") @@ [current |-> current, maximum |-> maximum]

\* items is the reference of the dict object in the store, or NewDict
InventoryComponent(items, capacity) ==
    Component_init("INVENTORY") @@ [items |-> items, capacity |-> capacity]

CurrencyComponent(amount) ==
    Component_init("CURRENCY") @@ [amount |-> amount]

RelationshipComponent(relationships) ==
    Component_init("RELATIONSHIP") @@ [relationships |-> relationships]

NeedsComponent(hunger, energy, social) ==
    Component_init("NEEDS") @@ [hunger |-> hunger, energy |-> energy, social |-> social]

ScheduleComponent(schedule) ==
    Component_init("SCHEDULE") @@ [schedule |-> schedule]

OccupationComponent(occupation, workplace, skill_level) ==
    Component_init("OCCUPATION") @@
    [occupation |-> occupation, workplace |-> workplace, skill_level |-> skill_level]

MemoryComponent(memories, max_memories) ==
    Component_init("MEMORY") @@ [memories |-> memories, max_memories |-> max_memories]

GoalComponent(current_goal, goals) ==
    Component_init("GOAL") @@ [current_goal |-> current_goal, goals |-> goals]

\* <Class>.to_dict: the base record updated with the fields of the class
to_dict(c) ==
    Component_to_dict(c) @@
    [f \in (DOMAIN c) \ {"component_type", "entity_id"} |-> c[f]]

\* str(n): the decimal text of an int, as a sequence of characters
Digits == <<"0", "1", "2", "3", "4", "5", "6", "7", "8", "9">>

RECURSIVE str_digits(_)
str_digits(n) ==
    IF n < 10 THEN <<Digits[n + 1]>>
    ELSE Append(str_digits(n \div 10), Digits[(n % 10) + 1])

str(n) == IF n < 0 THEN <<"-">> \o str_digits(-n) ELSE str_digits(n)

\* int(text): the int a decimal text stands for
DigitValue(ch) == CHOOSE d \in 0..9 : Digits[d + 1] = ch

RECURSIVE int_digits(_, _)
int_digits(text, acc) ==
    IF text = <<>> THEN acc
    ELSE int_digits(Tail(text), 10 * acc + DigitValue(Head(text)))

int_text(text) ==
    IF Head(text) = "-" THEN 0 - int_digits(Tail(text), 0) ELSE int_digits(text, 0)

\* a key of a relationships map: an int in memory, text in a saved file
IntKey(n) == [kind |-> "int", val |-> n]
StrKey(text) == [kind |-> "str", val |-> text]
\* int(k) for a key that is an int already or text; the first definition leaves
\* a text key as it is
int_keep_text(key) == key

int(key) == IF key.kind = "int" THEN key ELSE IntKey(int_text(key.val))

\* json.dump followed by json.load: the keys of a dict come back as text
json_key(key) == IF key.kind = "int" THEN StrKey(str(key.val)) ELSE key

json_component(record) ==
    IF "relationships" \in DOMAIN record
    THEN LET relationships == record.relationships
         IN  [record EXCEPT !.relationships =
                [i \in 1..Len(relationships) |->
                    [k |-> json_key(relationships[i].k), v |-> relationships[i].v]]]
    ELSE record

json_entity(record) ==
    [record EXCEPT !.components =
        [i \in 1..Len(record.components) |-> json_component(record.components[i])]]

json_state(data) ==
    [data EXCEPT !.entities =
        [entities |->
            [i \in 1..Len(data.entities.entities) |->
                json_entity(data.entities.entities[i])]]]

\* COMPONENT_REGISTRY: type tag -> class
COMPONENT_REGISTRY ==
    [position |-> "POSITION", health |-> "HEALTH", inventory |-> "INVENTORY",
     currency |-> "CURRENCY", relationship |-> "RELATIONSHIP", needs |-> "NEEDS",
     schedule |-> "SCHEDULE", occupation |-> "OCCUPATION", memory |-> "MEMORY",
     goal |-> "GOAL"]

\* <Class>.from_dict: every field read with its default
from_dict(cls, data) ==
    CASE cls = "POSITION" ->
            PositionComponent(Get(data, "location", "Unknown"), Get(data, "x", 0),
                              Get(data, "y", 0))
      [] cls = "HEALTH" ->
            HealthComponent(Get(data, "current", 100), Get(data, "maximum", 100))
      [] cls = "INVENTORY" ->
            InventoryComponent(Get(data, "items", NewDict), Get(data, "capacity", 20))
      [] cls = "CURRENCY" ->
            CurrencyComponent(Get(data, "amount", 0))
      [] cls = "RELATIONSHIP" ->
            LET relationships == Get(data, "relationships", <<>>)
            IN  RelationshipComponent(
                    [i \in 1..Len(relationships) |->
                        [k |-> int(relationships[i].k), v |-> relationships[i].v]])
      [] cls = "NEEDS" ->
            NeedsComponent(Get(data, "hunger", 50), Get(data, "energy", 100),
                           Get(data, "social", 50))
      [] cls = "SCHEDULE" ->
            ScheduleComponent(Get(data, "schedule", <<>>))
      [] cls = "OCCUPATION" ->
            OccupationComponent(Get(data, "occupation", "Villager"),
                                Get(data, "workplace", "None"),
                                Get(data, "skill_level", 1))
      [] cls = "MEMORY" ->
            MemoryComponent(Get(data, "memories", <<>>), Get(data, "max_memories", 50))
      [] cls = "GOAL" ->
            GoalComponent(Get(data, "current_goal", "None"), Get(data, "goals", <<>>))

(***************************************************************************)
(* Methods of the components; each gives the component after the call.     *)
(***************************************************************************)
max(a, b) == IF a >= b THEN a ELSE b
min(a, b) == IF a <= b THEN a ELSE b

\* HealthComponent.damage without the floor at 0
damage_unclamped(c, amount) == [c EXCEPT !.current = c.current - amount]

damage(c, amount) == [c EXCEPT !.current = max(0, c.current - amount)]

heal(c, amount) == [c EXCEPT !.current = min(c.maximum, c.current + amount)]

\* CurrencyComponent.add
add(c, value) == [c EXCEPT !.amount = c.amount + value]

\* CurrencyComponent.remove without the test of the amount
remove_unchecked(c, value) ==
    [ret |-> TRUE, component |-> [c EXCEPT !.amount = c.amount - value]]

remove(c, value) ==
    IF c.amount >= value
    THEN [ret |-> TRUE, component |-> [c EXCEPT !.amount = c.amount - value]]
    ELSE [ret |-> FALSE, component |-> c]

\* sum(d.values())
RECURSIVE sum(_)
sum(values) == IF values = <<>> THEN 0 ELSE Head(values) + sum(Tail(values))

\* add_item without the test of the capacity
add_item_uncapped(items, capacity, item_type, quantity) ==
    [ret |-> TRUE,
     items |-> DictSet(items, item_type, DictGet(items, item_type, 0) + quantity)]

\* add_item on the dict items: the value returned and the dict after the call
add_item(items, capacity, item_type, quantity) ==
    LET current_count == sum(DictValues(items))
    IN  IF current_count + quantity <= capacity
        THEN [ret |-> TRUE,
              items |-> DictSet(items, item_type, DictGet(items, item_type, 0) + quantity)]
        ELSE [ret |-> FALSE, items |-> items]

\* remove_item on the dict items: the value returned and the dict after the call
remove_item(items, item_type, quantity) ==
    IF DictHas(items, item_type) /\ DictGet(items, item_type, 0) >= quantity
    THEN LET left == DictSet(items, item_type, DictGet(items, item_type, 0) - quantity)
         IN  [ret |-> TRUE,
              items |-> IF DictGet(left, item_type, 0) = 0
                        THEN DictDel(left, item_type) ELSE left]
    ELSE [ret |-> FALSE, items |-> items]

get_relationship(c, entity_id) == DictGet(c.relationships, IntKey(entity_id), 0)

set_relationship(c, entity_id, value) ==
    [c EXCEPT !.relationships = DictSet(@, IntKey(entity_id), max(-100, min(100, value)))]

\* modify_relationship without the clamp
modify_relationship_unclamped(c, entity_id, delta) ==
    LET current == DictGet(c.relationships, IntKey(entity_id), 0)
    IN  [c EXCEPT !.relationships = DictSet(@, IntKey(entity_id), current + delta)]

modify_relationship(c, entity_id, delta) ==
    LET current == DictGet(c.relationships, IntKey(entity_id), 0)
    IN  [c EXCEPT !.relationships =
            DictSet(@, IntKey(entity_id), max(-100, min(100, current + delta)))]

\* get_relationship_level without the test value < 75
get_relationship_level_no_friend(c, entity_id) ==
    LET value == get_relationship(c, entity_id)
    IN  IF value < -50 THEN "enemy"
        ELSE IF value < -10 THEN "dislike"
        ELSE IF value < 10 THEN "neutral"
        ELSE IF value < 50 THEN "friendly"
        ELSE "close_friend"

\* get_relationship_level with <= in the place of <
get_relationship_level_inclusive(c, entity_id) ==
    LET value == get_relationship(c, entity_id)
    IN  IF value <= -50 THEN "enemy"
        ELSE IF value <= -10 THEN "dislike"
        ELSE IF value <= 10 THEN "neutral"
        ELSE IF value <= 50 THEN "friendly"
        ELSE IF value <= 75 THEN "friend"
        ELSE "close_friend"

get_relationship_level(c, entity_id) ==
    LET value == get_relationship(c, entity_id)
    IN  IF value < -50 THEN "enemy"
        ELSE IF value < -10 THEN "dislike"
        ELSE IF value < 10 THEN "neutral"
        ELSE IF value < 50 THEN "friendly"
        ELSE IF value < 75 THEN "friend"
        ELSE "close_friend"

\* Python float: binary floating point whose significand has Precision bits.
\* A number is a float when it is m * 2^e with |m| < 2^Precision; the result of
\* an operation is the exact result rounded to the nearest float, a tie going
\* to the even significand.  The numbers of the model are integers.
RECURSIVE Pow2(_)
Pow2(e) == IF e = 0 THEN 1 ELSE 2 * Pow2(e - 1)

\* the distance of neighbouring floats around n >= 0
RECURSIVE Ulp(_, _)
Ulp(n, step) == IF n < Pow2(Precision) * step THEN step ELSE Ulp(n, 2 * step)

float_round(n) ==
    LET a == IF n < 0 THEN 0 - n ELSE n
        step == Ulp(a, 1)
        q == a \div step
        r == a % step
        m == IF 2 * r < step THEN q
             ELSE IF 2 * r > step THEN q + 1
             ELSE IF q % 2 = 0 THEN q ELSE q + 1
    IN  IF n < 0 THEN 0 - (m * step) ELSE m * step

IsFloat(n) == float_round(n) = n

\* a - b on floats
float_sub(a, b) == float_round(a - b)

\* max(d, key=d.get): the first key of d, in insertion order, whose value no
\* value of d exceeds
max_key(d) ==
    LET i == CHOOSE j \in 1..Len(d) :
                /\ \A k \in 1..Len(d) : d[k].v <= d[j].v
                /\ \A k \in 1..(j - 1) : d[k].v < d[j].v
    IN  d[i].k

get_most_urgent_need(c) ==
    LET needs == <<[k |-> "hunger", v |-> float_sub(100, c.hunger)],
                   [k |-> "energy", v |-> float_sub(100, c.energy)],
                   [k |-> "social", v |-> float_sub(100, c.social)]>>
    IN  max_key(needs)

\* add_memory that drops the record just added when over max_memories
add_memory_drop_newest(c, memory) ==
    LET appended == Append(c.memories, memory)
    IN  [c EXCEPT !.memories = IF Len(appended) > c.max_memories
                               THEN SubSeq(appended, 1, Len(appended) - 1)
                               ELSE appended]

\* add_memory: memories.append(memory), then memories.pop(0) when over
\* max_memories
add_memory(c, memory) ==
    LET appended == Append(c.memories, memory)
    IN  [c EXCEPT !.memories = IF Len(appended) > c.max_memories
                               THEN Tail(appended)
                               ELSE appended]

\* create_component_from_dict: <<>> stands for the None it returns on an unknown
\* tag; the first definition builds a base component for an unknown tag instead
create_component_from_dict_any_tag(data) ==
    LET component_type == Get(data, "type", "None")
    IN  IF component_type \in DOMAIN COMPONENT_REGISTRY
        THEN <<from_dict(COMPONENT_REGISTRY[component_type], data)>>
        ELSE <<Component_init("AI")>>

create_component_from_dict(data) ==
    LET component_type == Get(data, "type", "None")
    IN  IF component_type \in DOMAIN COMPONENT_REGISTRY
        THEN <<from_dict(COMPONENT_REGISTRY[component_type], data)>>
        ELSE <<>>

(***************************************************************************)
(* entity.py: Entity.  An entity object is a record; components is a dict  *)
(* ComponentType -> component.                                             *)
(***************************************************************************)
\* Entity.__init__ given the value of Entity._next_id it reads
Entity_init(id, name, entity_type) ==
    [id |-> id, name |-> name, entity_type |-> entity_type,
     components |-> <<>>, active |-> TRUE]

\* add_component without the test for an existing component of the type
add_component_overwrite(e, component) ==
    [ret |-> TRUE,
     entity |-> [e EXCEPT !.components =
                    DictSet(@, component.component_type,
                            [component EXCEPT !.entity_id = e.id])]]

add_component(e, component) ==
    IF DictHas(e.components, component.component_type)
    THEN [ret |-> FALSE, entity |-> e]
    ELSE [ret |-> TRUE,
          entity |-> [e EXCEPT !.components =
                        DictSet(@, component.component_type,
                                [component EXCEPT !.entity_id = e.id])]]

remove_component(e, component_type) ==
    IF DictHas(e.components, component_type)
    THEN [ret |-> TRUE,
          entity |-> [e EXCEPT !.components = DictDel(@, component_type)]]
    ELSE [ret |-> FALSE, entity |-> e]

has_component(e, component_type) == DictHas(e.components, component_type)

has_components(e, component_types) ==
    \A ct \in component_types : DictHas(e.components, ct)

get_components(e) == DictValues(e.components)

Entity_to_dict(e) ==
    [id |-> e.id, name |-> e.name, entity_type |-> e.entity_type,
     active |-> e.active,
     components |-> [i \in 1..Len(e.components) |-> to_dict(e.components[i].v)]]

\* the loop of Entity.from_dict over data["components"]
RECURSIVE RestoreComponents(_, _)
RestoreComponents(e, comps) ==
    IF comps = <<>> THEN e
    ELSE LET component == create_component_from_dict(Head(comps))
         IN  RestoreComponents(
                 IF component # <<>> THEN add_component(e, component[1]).entity ELSE e,
                 Tail(comps))

\* Entity.from_dict; fresh is the ID the constructor took from Entity._next_id;
\* the first definition takes an entity without an active field for inactive
Entity_from_dict_inactive(data, fresh) ==
    LET entity == Entity_init(fresh, Get(data, "name", "Unnamed Entity"),
                              Get(data, "entity_type", "Generic"))
        loaded_ == [entity EXCEPT !.id = Get(data, "id", entity.id),
                                  !.active = Get(data, "active", FALSE)]
    IN  RestoreComponents(loaded_, Get(data, "components", <<>>))

Entity_from_dict(data, fresh) ==
    LET entity == Entity_init(fresh, Get(data, "name", "Unnamed Entity"),
                              Get(data, "entity_type", "Generic"))
        loaded_ == [entity EXCEPT !.id = Get(data, "id", entity.id),
                                  !.active = Get(data, "active", TRUE)]
    IN  RestoreComponents(loaded_, Get(data, "components", <<>>))

(***************************************************************************)
(* entity.py: EntityManager.  A manager is a record of two dicts:          *)
(* entities (id -> reference of the Entity object) and entities_by_type    *)
(* (entity_type -> list of ids).  h is the heap the references point into. *)
(***************************************************************************)
EntityManager_init == [entities |-> <<>>, entities_by_type |-> <<>>]

\* add_entity without the test for an ID already present
add_entity_replace(m, ref, h) ==
    LET entity == h[ref]
        by_type == DictGet(m.entities_by_type, entity.entity_type, <<>>)
    IN  [ret |-> TRUE,
         manager |->
            [entities |-> DictSet(m.entities, entity.id, ref),
             entities_by_type |->
                DictSet(m.entities_by_type, entity.entity_type,
                        Append(by_type, entity.id))]]

add_entity(m, ref, h) ==
    LET entity == h[ref]
        by_type == DictGet(m.entities_by_type, entity.entity_type, <<>>)
    IN  IF DictHas(m.entities, entity.id)
        THEN [ret |-> FALSE, manager |-> m]
        ELSE [ret |-> TRUE,
              manager |->
                 [entities |-> DictSet(m.entities, entity.id, ref),
                  entities_by_type |->
                     DictSet(m.entities_by_type, entity.entity_type,
                             Append(by_type, entity.id))]]

\* remove_entity without the removal from entities_by_type
remove_entity_keep_index(m, entity_id, h) ==
    IF ~DictHas(m.entities, entity_id)
    THEN [ret |-> FALSE, manager |-> m]
    ELSE [ret |-> TRUE,
          manager |-> [m EXCEPT !.entities = DictDel(@, entity_id)]]

remove_entity(m, entity_id, h) ==
    IF ~DictHas(m.entities, entity_id)
    THEN [ret |-> FALSE, manager |-> m]
    ELSE LET entity == h[DictGet(m.entities, entity_id, NoRef)]
             by_type == DictGet(m.entities_by_type, entity.entity_type, <<>>)
             untracked ==
                IF DictHas(m.entities_by_type, entity.entity_type)
                   /\ entity_id \in SeqToSet(by_type)
                THEN DictSet(m.entities_by_type, entity.entity_type,
                             ListRemove(by_type, entity_id))
                ELSE m.entities_by_type
         IN  [ret |-> TRUE,
              manager |-> [entities |-> DictDel(m.entities, entity_id),
                           entities_by_type |-> untracked]]

\* the reference of the entity, NoRef for None
get_entity(m, entity_id) == DictGet(m.entities, entity_id, NoRef)

get_entities_by_type(m, entity_type) ==
    LET entity_ids == DictGet(m.entities_by_type, entity_type, <<>>)
        present == SelectSeq(entity_ids, LAMBDA eid : DictHas(m.entities, eid))
    IN  [i \in 1..Len(present) |-> DictGet(m.entities, present[i], NoRef)]

get_all_entities(m) == DictValues(m.entities)

get_active_entities(m, h) ==
    SelectSeq(DictValues(m.entities), LAMBDA ref : h[ref].active)

\* query_entities without the test of entity.active
query_entities_any_state(m, required_components, h) ==
    SelectSeq(DictValues(m.entities),
              LAMBDA ref : has_components(h[ref], required_components))

query_entities(m, required_components, h) ==
    SelectSeq(DictValues(m.entities),
              LAMBDA ref : h[ref].active /\ has_components(h[ref], required_components))

count_entities(m) == Len(m.entities)

count_entities_by_type(m, entity_type) ==
    Len(DictGet(m.entities_by_type, entity_type, <<>>))

\* clear() that empties the primary map only
clear_entities_only(m) == [m EXCEPT !.entities = <<>>]

\* clear(): both indexes are emptied
clear(m) == [m EXCEPT !.entities = <<>>, !.entities_by_type = <<>>]

EntityManager_to_dict(m, h) ==
    [entities |-> [i \in 1..Len(m.entities) |-> Entity_to_dict(h[m.entities[i].v])]]

\* the lowest free reference of heap h
Refs == 1..MaxObjs
Alloc(h) == CHOOSE r \in Refs \ DOMAIN h : \A q \in Refs \ DOMAIN h : r <= q

\* the loop of EntityManager.from_dict; st = [manager, heap, next_id]
\* the loop body of EntityManager.from_dict without the update of Entity._next_id
from_dict_step_no_bump(st, entity_data) ==
    LET ref == Alloc(st.heap)
        entity == Entity_from_dict(entity_data, st.next_id)
        h1 == [r \in DOMAIN st.heap \cup {ref} |-> IF r = ref THEN entity ELSE st.heap[r]]
    IN  [manager |-> add_entity(st.manager, ref, h1).manager,
         heap |-> h1,
         next_id |-> st.next_id + 1]

from_dict_step(st, entity_data) ==
    LET ref == Alloc(st.heap)
        entity == Entity_from_dict(entity_data, st.next_id)
        h1 == [r \in DOMAIN st.heap \cup {ref} |-> IF r = ref THEN entity ELSE st.heap[r]]
        n1 == st.next_id + 1
    IN  [manager |-> add_entity(st.manager, ref, h1).manager,
         heap |-> h1,
         next_id |-> IF entity.id >= n1 THEN entity.id + 1 ELSE n1]

RECURSIVE from_dict_loop(_, _)
from_dict_loop(st, entities_data) ==
    IF entities_data = <<>> THEN st
    ELSE from_dict_loop(from_dict_step(st, Head(entities_data)), Tail(entities_data))

EntityManager_from_dict(data, h, nid) ==
    from_dict_loop([manager |-> EntityManager_init, heap |-> h, next_id |-> nid],
                   Get(data, "entities", <<>>))

(***************************************************************************)
(* game_state.py: GameState.set_player, GameState.get_player               *)
(***************************************************************************)
\* set_player without the lookup of the entity
set_player_unchecked(pid, m, entity_id) == entity_id

set_player(pid, m, entity_id) ==
    IF get_entity(m, entity_id) # NoRef THEN entity_id ELSE pid

\* get_player answering with any live entity object of that ID instead of the
\* manager's entry
get_player_by_identity(pid, m, h) ==
    IF pid # None /\ \E r \in DOMAIN h : h[r].id = pid
    THEN CHOOSE r \in DOMAIN h : h[r].id = pid
    ELSE NoRef

get_player(pid, m, h) ==
    IF pid # None THEN get_entity(m, pid) ELSE NoRef

(***************************************************************************)
(* GameState.__init__ and GameState.from_dict                              *)
(***************************************************************************)
EmptyRec == <<>>    \* {} where a record is expected
NoComponent == [component_type |-> "None"]    \* the caller holds no component

GameState_init ==
    [day_count |-> 1, time_of_day |-> "morning", season |-> "spring", year |-> 1,
     current_weather |-> "sunny", player_id |-> None]

\* GameState.from_dict without the player section
GameState_from_dict_no_player(data) ==
    LET time_data == Get(data, "time", EmptyRec)
        weather_data == Get(data, "weather", EmptyRec)
    IN  [day_count |-> Get(time_data, "day_count", 1),
         time_of_day |-> Get(time_data, "time_of_day", "morning"),
         season |-> Get(time_data, "season", "spring"),
         year |-> Get(time_data, "year", 1),
         current_weather |-> Get(weather_data, "current_weather", "sunny"),
         player_id |-> None]

GameState_from_dict(data) ==
    LET time_data == Get(data, "time", EmptyRec)
        weather_data == Get(data, "weather", EmptyRec)
        player_data == Get(data, "player", EmptyRec)
    IN  [day_count |-> Get(time_data, "day_count", 1),
         time_of_day |-> Get(time_data, "time_of_day", "morning"),
         season |-> Get(time_data, "season", "spring"),
         year |-> Get(time_data, "year", 1),
         current_weather |-> Get(weather_data, "current_weather", "sunny"),
         player_id |-> Get(player_data, "player_id", None)]

\* GameState.to_dict of a state with manager m over heap h (the metadata section
\* carries only the version tag here)
GameState_to_dict(s, m, h) ==
    [metadata |-> [version |-> "1.0"],
     time |-> [day_count |-> s.day_count, time_of_day |-> s.time_of_day,
               season |-> s.season, year |-> s.year],
     weather |-> [current_weather |-> s.current_weather],
     player |-> [player_id |-> s.player_id],
     entities |-> EntityManager_to_dict(m, h)]

(***************************************************************************)
(* The objects the caller can still reach: an Entity that is in no manager *)
(* and that the caller does not hold is gone, and its slot is free again.  *)
(***************************************************************************)
Reach(ms, hd) ==
    UNION {SeqToSet(DictValues(ms[i].entities)) : i \in DOMAIN ms} \cup ({hd} \ {NoRef})

Live(h, ms, hd) == [r \in (DOMAIN h) \cap Reach(ms, hd) |-> h[r]]

Store(h, ref, entity) == [r \in (DOMAIN h) \cup {ref} |-> IF r = ref THEN entity ELSE h[r]]

\* the dict objects of the store that inventories of heap h refer to
DictRefs == 1..MaxObjs
Inventory(e) == DictGet(e.components, "INVENTORY", NoComponent)
UsedDicts(h) ==
    {Inventory(h[r]).items : r \in {q \in DOMAIN h : DictHas(h[q].components, "INVENTORY")}}

\* every inventory of heap h that still carries NewDict gets a new empty dict
\* object of store st
RECURSIVE Materialize(_, _)
Materialize(h, st) ==
    LET need == {r \in DOMAIN h : /\ DictHas(h[r].components, "INVENTORY")
                                  /\ Inventory(h[r]).items = NewDict}
    IN  IF need = {} THEN [heap |-> h, store |-> st]
        ELSE LET r == CHOOSE q \in need : \A p \in need : q <= p
                 free == DictRefs \ UsedDicts(h)
                 d == CHOOSE q \in free : \A p \in free : q <= p
             IN  Materialize(
                    [h EXCEPT ![r].components =
                        DictSet(@, "INVENTORY", [Inventory(h[r]) EXCEPT !.items = d])],
                    [q \in (DOMAIN st) \cup {d} |-> IF q = d THEN <<>> ELSE st[q]])

\* the content of the inventory of entity e
Items(e, st) == st[Inventory(e).items]

Call(op, m, arg, ok, ref) ==
    [op |-> op, m |-> m, arg |-> arg, ok |-> ok, ref |-> ref, list |-> <<>>, types |-> {}]

(***************************************************************************)
(* Inputs                                                                  *)
(***************************************************************************)
Names == {"Ann"}
EntityTypes == {"Player", "Villager"}
Managers == {1, 2}
Ids == 1..MaxId

LoadDays == {1, 27, 111}
TimeRecords ==
    {[day_count |-> d, time_of_day |-> t, season |-> s, year |-> 1] :
        d \in LoadDays, t \in {"morning", "night", "dusk"},
        s \in {"spring", "winter", "monsoon"}}
    \cup {[day_count |-> 28], [time_of_day |-> "night"], EmptyRec}
StateRecords == {[time |-> t] : t \in TimeRecords} \cup {EmptyRec}

ComponentInputs ==
    {PositionComponent("Farm", 0, 0), PositionComponent("Town", 0, 0),
     HealthComponent(100, 100)}
Variants == {"POSITION", "HEALTH", "INVENTORY"}
QueryVariants == {"POSITION", "HEALTH"}

ComponentRecords ==
    {<<>>,
     <<[type |-> "position", location |-> "Farm"], [type |-> "ai"],
       [type |-> "position", location |-> "Town"]>>}
EntityRecords ==
    {[id |-> k] : k \in Ids}
    \cup {[name |-> "Bob", active |-> FALSE, components |-> c] : c \in ComponentRecords}
    \cup {[id |-> k, entity_type |-> "Villager", components |-> c] :
            k \in {2}, c \in ComponentRecords}

\* state records with a player section and an entities section
PlayerRecords ==
    {[player |-> [player_id |-> p], entities |-> [entities |-> es]] :
        p \in {None} \cup Ids,
        es \in {<<>>, <<[id |-> 1]>>, <<[id |-> 2], [id |-> 1]>>}}
    \cup {[player |-> [player_id |-> 2]], EmptyRec}

\* a saved state with a calendar and weather of its own and no entities
SavedWorld ==
    [time |-> [day_count |-> 27, time_of_day |-> "night", season |-> "winter",
               year |-> 3],
     weather |-> [current_weather |-> "rainy"]]

\* components an entity of a saved state carries
StateComponents ==
    {PositionComponent("Farm", 3, 4),
     RelationshipComponent(<<[k |-> IntKey(2), v |-> 60]>>)}

\* relationship targets (negative, one digit, several digits) and values on
\* both sides of the clamp
Targets == {-3, 2, 17}
RelationshipValues == {-150, -100, 60, 100, 160}

ItemTypes == {"wheat", "seed"}
Quantities == {5, 20}

\* component records with a known tag, with a tag outside the registry, and
\* without a tag
TagRecords ==
    {[type |-> "position", location |-> "Farm"], [type |-> "position", location |-> "Town"],
     [type |-> "health", current |-> 40], [type |-> "currency", amount |-> 7],
     [type |-> "ai"], [type |-> "sensory"], [location |-> "Lost"]}
TaggedRecords ==
    {[id |-> k, components |-> cs] :
        k \in Ids, cs \in UNION {[1..n -> TagRecords] : n \in 1..MaxRecords}}

\* record r without the fields outside F
Restrict(r, F) == [f \in F |-> r[f]]
Partial(r, keep) == {Restrict(r, F \cup keep) : F \in SUBSET ((DOMAIN r) \ keep)}

\* one record of every registered class with every field present (the items of
\* an inventory, a dict object, left out), and the records with any of the
\* fields absent
FullComponents ==
    {[type |-> "position", location |-> "Farm", x |-> 3, y |-> 4],
     [type |-> "health", current |-> 40, maximum |-> 80],
     [type |-> "inventory", capacity |-> 5],
     [type |-> "currency", amount |-> 7],
     [type |-> "relationship", relationships |-> <<[k |-> StrKey(<<"2">>), v |-> 60]>>],
     [type |-> "needs", hunger |-> 10, energy |-> 20, social |-> 30],
     [type |-> "schedule", schedule |-> <<[k |-> "morning", v |-> "work"]>>],
     [type |-> "occupation", occupation |-> "Farmer", workplace |-> "Farm",
      skill_level |-> 3],
     [type |-> "memory", memories |-> <<"harvest">>, max_memories |-> 5],
     [type |-> "goal", current_goal |-> "Rest", goals |-> <<"Rest">>]}
PartialComponents == UNION {Partial(r, {"type"}) : r \in FullComponents}

FullEntity ==
    [id |-> 3, name |-> "Bob", entity_type |-> "Crop", active |-> FALSE,
     components |-> <<[type |-> "health"]>>]
PartialEntities == Partial(FullEntity, {})

FullTime == [day_count |-> 27, time_of_day |-> "night", season |-> "winter", year |-> 3]
PartialStates ==
    {[time |-> t] : t \in Partial(FullTime, {})}
    \cup {[weather |-> w, player |-> p] :
            w \in {EmptyRec, [current_weather |-> "rainy"]},
            p \in {EmptyRec, [player_id |-> 2]}}
    \cup {[entities |-> es] : es \in {EmptyRec, [entities |-> <<EmptyRec>>]}}
    \cup {EmptyRec}

\* the records among them with at most one field present
SparseComponents == {r \in PartialComponents : Cardinality(DOMAIN r) <= 2}
SparseEntities == {r \in PartialEntities : Cardinality(DOMAIN r) <= 1}
SparseStates ==
    {r \in PartialStates : \A section \in DOMAIN r : Cardinality(DOMAIN r[section]) <= 1}

\* HealthComponent objects with 0 <= current <= maximum, and the amounts of the
\* calls on them: inside [0, maximum], or any integer
HealthInputs ==
    UNION {{HealthComponent(c, m) : c \in 0..m} : m \in 1..MaxHealth}
HealthAmounts == 0..MaxHealth
AnyHealthAmounts == (0 - MaxHealth)..MaxHealth

\* CurrencyComponent objects with amount >= 0 and the values of the calls
CurrencyInputs == {CurrencyComponent(a) : a \in 0..MaxAmount}
CurrencyValues == (0 - MaxAmount)..MaxAmount

\* capacities of an InventoryComponent the caller holds and the quantities of
\* the calls on it: any integer around the capacity
Capacities == 1..MaxCapacity
ItemQuantities == (0 - MaxCapacity)..(MaxCapacity + 1)

\* the targets, values and deltas of set_relationship and modify_relationship
\* calls: a stored and a never stored target, values and sums on both sides of
\* the clamp; and every value of [-100, 100] with one more on each side
ClampTargets == {2, 17}
Deltas == {-250, -100, 100, 250}
LevelValues == -101..101

\* values of a need inside [0, 100]: neighbouring floats near 0, and floats in
\* the middle and at the top of the range
NeedValues == {n \in {0, 1, 2, 3, 50, 100} : IsFloat(n)}

\* event records and MemoryComponent objects with len(memories) <= max_memories
Events == {[event |-> "met"], [event |-> "ate"], [event |-> "slept"]}
MemoryInputs ==
    UNION {{MemoryComponent(ms, n) : ms \in UNION {[1..k -> Events] : k \in 0..n}} :
              n \in 0..MaxMemories}

\* entity records with an ID and a type, and state records whose entities
\* section repeats an ID under another type
TypedRecords == {[id |-> k, entity_type |-> t] : k \in Ids, t \in EntityTypes}
IndexRecords ==
    {[entities |-> [entities |-> es]] :
        es \in {<<>>,
                <<[id |-> 1, entity_type |-> "Player"], [id |-> 1, entity_type |-> "Villager"]>>,
                <<[id |-> 2, entity_type |-> "Villager"], [id |-> 1, entity_type |-> "Player"]>>}}

(***************************************************************************)
(* Initial state: GameState() with its own EntityManager, a second         *)
(* EntityManager(), Entity._next_id = 1.                                   *)
(***************************************************************************)
Init ==
    /\ time_of_day = GameState_init.time_of_day
    /\ day_count = GameState_init.day_count
    /\ season = GameState_init.season
    /\ year = GameState_init.year
    /\ current_weather = GameState_init.current_weather
    /\ player_id = GameState_init.player_id
    /\ next_id = 1
    /\ heap = <<>>
    /\ managers = [i \in Managers |-> EntityManager_init]
    /\ held = NoRef
    /\ calls = 0
    /\ loaded = FALSE
    /\ comp = NoComponent
    /\ store = <<>>
    /\ last = Call("init", 0, 0, TRUE, NoRef)

(***************************************************************************)
(* Calendar actions                                                        *)
(***************************************************************************)
\* advance_time that also moves current_weather to the next weather
AdvanceTimeWeather ==
    /\ calls < MaxCalls
    /\ LET c == advance_time(Calendar)
       IN  /\ time_of_day' = c.time_of_day
           /\ day_count' = c.day_count
           /\ season' = c.season
           /\ year' = c.year
    /\ calls' = calls + 1
    /\ current_weather' =
          Weather_get_all[((ListIndex(Weather_get_all, current_weather) + 1)
                           % Len(Weather_get_all)) + 1]
    /\ last' = Call("advance_time", 0, 0, TRUE, NoRef)
    /\ UNCHANGED <<loaded, player_id, next_id, heap, managers, held, componentVars>>

AdvanceTime ==
    /\ calls < MaxCalls
    /\ LET c == advance_time(Calendar)
       IN  /\ time_of_day' = c.time_of_day
           /\ day_count' = c.day_count
           /\ season' = c.season
           /\ year' = c.year
    /\ calls' = calls + 1
    /\ last' = Call("advance_time", 0, 0, TRUE, NoRef)
    /\ UNCHANGED <<loaded, current_weather, player_id, next_id, heap, managers, held, componentVars>>

\* state = GameState.from_dict(data): the new GameState replaces the old one
GameStateFromDict(data) ==
    LET s == GameState_from_dict(data)
        entities_data == Get(data, "entities", EmptyRec)
        st == EntityManager_from_dict(entities_data, heap, next_id)
        ms == [managers EXCEPT ![1] = st.manager]
    IN  /\ Cardinality(Refs \ DOMAIN heap) >= Len(Get(entities_data, "entities", <<>>))
        /\ st.next_id <= MaxId + 1
        /\ time_of_day' = s.time_of_day
        /\ day_count' = s.day_count
        /\ season' = s.season
        /\ year' = s.year
        /\ current_weather' = s.current_weather
        /\ player_id' = s.player_id
        /\ managers' = ms
        /\ heap' = Materialize(Live(st.heap, ms, held), store).heap
        /\ store' = Materialize(Live(st.heap, ms, held), store).store
        /\ next_id' = st.next_id
        /\ calls' = 0
        /\ loaded' = TRUE
        /\ last' = Call("GameState.from_dict", 0, 0, TRUE, NoRef)
        /\ UNCHANGED <<held, comp>>

(***************************************************************************)
(* Entity actions                                                          *)
(***************************************************************************)
\* e = Entity(name, entity_type)
NewEntity(name, entity_type) ==
    LET h0 == Live(heap, managers, NoRef)
    IN  /\ next_id <= MaxId
        /\ Refs \ DOMAIN h0 # {}
        /\ LET ref == Alloc(h0)
           IN  /\ heap' = Store(h0, ref, Entity_init(next_id, name, entity_type))
               /\ held' = ref
               /\ last' = Call("Entity", 0, 0, TRUE, ref)
        /\ next_id' = next_id + 1
        /\ UNCHANGED <<calendarVars, worldVars, managers, componentVars>>

\* e = Entity.from_dict(data)
EntityFromDict(data) ==
    LET h0 == Live(heap, managers, NoRef)
    IN  /\ next_id <= MaxId
        /\ Refs \ DOMAIN h0 # {}
        /\ LET ref == Alloc(h0)
               mz == Materialize(Store(h0, ref, Entity_from_dict(data, next_id)), store)
           IN  /\ heap' = mz.heap
               /\ store' = mz.store
               /\ held' = ref
               /\ last' = Call("Entity.from_dict", 0, Get(data, "id", None), TRUE, ref)
        /\ next_id' = next_id + 1
        /\ UNCHANGED <<calendarVars, worldVars, managers, comp>>

\* e.add_component(component)
AddComponent(ref, component) ==
    /\ ref \in DOMAIN heap
    /\ LET r == add_component(heap[ref], component)
           mz == Materialize([heap EXCEPT ![ref] = r.entity], store)
       IN  /\ heap' = mz.heap
           /\ store' = mz.store
           /\ last' = [Call("add_component", 0, ref, r.ret, NoRef) EXCEPT
                           !.types = {component.component_type}]
    /\ UNCHANGED <<calendarVars, worldVars, next_id, managers, held, comp>>

\* e.remove_component(component_type)
RemoveComponent(ref, component_type) ==
    /\ ref \in DOMAIN heap
    /\ LET r == remove_component(heap[ref], component_type)
       IN  /\ heap' = [heap EXCEPT ![ref] = r.entity]
           /\ last' = [Call("remove_component", 0, ref, r.ret, NoRef) EXCEPT
                           !.types = {component_type}]
    /\ UNCHANGED <<calendarVars, worldVars, next_id, managers, held, componentVars>>

\* e.active = value
SetActive(ref, value) ==
    /\ ref \in DOMAIN heap
    /\ heap' = [heap EXCEPT ![ref].active = value]
    /\ last' = Call("active", 0, ref, value, NoRef)
    /\ UNCHANGED <<calendarVars, worldVars, next_id, managers, held, componentVars>>

\* e.get_component(ComponentType.INVENTORY).add_item(item_type, quantity)
AddItem(ref, item_type, quantity) ==
    /\ ref \in DOMAIN heap
    /\ DictHas(heap[ref].components, "INVENTORY")
    /\ LET c == Inventory(heap[ref])
           r == add_item(store[c.items], c.capacity, item_type, quantity)
       IN  /\ store' = [store EXCEPT ![c.items] = r.items]
           /\ last' = Call("add_item", 0, ref, r.ret, NoRef)
    /\ UNCHANGED <<calendarVars, worldVars, entityVars, comp>>

(***************************************************************************)
(* EntityManager actions on manager mi                                     *)
(***************************************************************************)
CreateEntity(mi, name, entity_type) ==
    LET h0 == Live(heap, managers, NoRef)
    IN  /\ next_id <= MaxId
        /\ Refs \ DOMAIN h0 # {}
        /\ LET ref == Alloc(h0)
               h1 == Store(h0, ref, Entity_init(next_id, name, entity_type))
           IN  /\ heap' = h1
               /\ managers' = [managers EXCEPT ![mi] = add_entity(@, ref, h1).manager]
               /\ held' = ref
               /\ last' = Call("create_entity", mi, 0, TRUE, ref)
        /\ next_id' = next_id + 1
        /\ UNCHANGED <<calendarVars, worldVars, componentVars>>

AddEntity(mi, ref) ==
    /\ ref \in DOMAIN heap
    /\ LET r == add_entity(managers[mi], ref, heap)
       IN  /\ managers' = [managers EXCEPT ![mi] = r.manager]
           /\ last' = Call("add_entity", mi, ref, r.ret, NoRef)
    /\ UNCHANGED <<calendarVars, worldVars, next_id, heap, held, componentVars>>

RemoveEntity(mi, entity_id) ==
    LET r == remove_entity(managers[mi], entity_id, heap)
        ms == [managers EXCEPT ![mi] = r.manager]
    IN  /\ managers' = ms
        /\ heap' = Live(heap, ms, held)
        /\ last' = Call("remove_entity", mi, entity_id, r.ret, NoRef)
        /\ UNCHANGED <<calendarVars, worldVars, next_id, held, componentVars>>

\* manager.clear()
Clear(mi) ==
    LET ms == [managers EXCEPT ![mi] = clear(@)]
    IN  /\ managers' = ms
        /\ heap' = Live(heap, ms, held)
        /\ last' = Call("clear", mi, 0, TRUE, NoRef)
        /\ UNCHANGED <<calendarVars, worldVars, next_id, held, componentVars>>

\* e = manager.get_entity(entity_id)
GetEntity(mi, entity_id) ==
    LET ref == get_entity(managers[mi], entity_id)
    IN  /\ held' = ref
        /\ heap' = Live(heap, managers, ref)
        /\ last' = Call("get_entity", mi, entity_id, TRUE, ref)
        /\ UNCHANGED <<calendarVars, worldVars, next_id, managers, componentVars>>

QueryEntities(mi, required_components) ==
    /\ last' = [Call("query_entities", mi, 0, TRUE, NoRef) EXCEPT
                    !.list = query_entities(managers[mi], required_components, heap),
                    !.types = required_components]
    /\ UNCHANGED <<calendarVars, worldVars, entityVars, componentVars>>

\* managers[dst] = EntityManager.from_dict(managers[src].to_dict())
SaveLoadManager(src, dst) ==
    LET data == EntityManager_to_dict(managers[src], heap)
        st == EntityManager_from_dict(data, heap, next_id)
        ms == [managers EXCEPT ![dst] = st.manager]
    IN  /\ Cardinality(Refs \ DOMAIN heap) >= Len(data.entities)
        /\ st.next_id <= MaxId + 1
        /\ managers' = ms
        /\ heap' = Materialize(Live(st.heap, ms, held), store).heap
        /\ store' = Materialize(Live(st.heap, ms, held), store).store
        /\ next_id' = st.next_id
        /\ last' = Call("EntityManager.from_dict", dst, src, TRUE, NoRef)
        /\ UNCHANGED <<calendarVars, worldVars, held, comp>>

(***************************************************************************)
(* GameState player actions; the state's manager is managers[1]            *)
(***************************************************************************)
SetPlayer(entity_id) ==
    /\ player_id' = set_player(player_id, managers[1], entity_id)
    /\ last' = Call("set_player", 1, entity_id, TRUE, NoRef)
    /\ UNCHANGED <<calendarVars, current_weather, entityVars, componentVars>>

GetPlayer ==
    /\ last' = Call("get_player", 1, 0, TRUE, get_player(player_id, managers[1], heap))
    /\ UNCHANGED <<calendarVars, worldVars, entityVars, componentVars>>

\* state.current_weather = weather, by the caller
SetWeather(weather) ==
    /\ current_weather' = weather
    /\ last' = Call("current_weather", 1, 0, TRUE, NoRef)
    /\ UNCHANGED <<calendarVars, player_id, entityVars, componentVars>>

\* the fields of the GameState as one record
State ==
    [day_count |-> day_count, time_of_day |-> time_of_day, season |-> season,
     year |-> year, current_weather |-> current_weather, player_id |-> player_id]

\* state = GameState.from_dict(state.to_dict()), or, with file,
\* state.save_to_file(path); del state; state = GameState.load_from_file(path);
\* the caller keeps no entity of the state it replaces
SaveLoadState(file) ==
    LET record == GameState_to_dict(State, managers[1], heap)
        data == IF file THEN json_state(record) ELSE record
        h0 == IF file
              THEN Live(heap, [managers EXCEPT ![1] = EntityManager_init], NoRef)
              ELSE heap
        s == GameState_from_dict(data)
        st == EntityManager_from_dict(data.entities, h0, next_id)
        ms == [managers EXCEPT ![1] = st.manager]
    IN  /\ Cardinality(Refs \ DOMAIN h0) >= Len(data.entities.entities)
        /\ st.next_id <= MaxId + StateEntities
        /\ time_of_day' = s.time_of_day
        /\ day_count' = s.day_count
        /\ season' = s.season
        /\ year' = s.year
        /\ current_weather' = s.current_weather
        /\ player_id' = s.player_id
        /\ managers' = ms
        /\ heap' = Materialize(Live(st.heap, ms, NoRef), store).heap
        /\ store' = Materialize(Live(st.heap, ms, NoRef), store).store
        /\ next_id' = st.next_id
        /\ calls' = 0
        /\ loaded' = TRUE
        /\ last' = Call(IF file THEN "load_from_file" ELSE "from_dict(to_dict())",
                        1, 0, TRUE, NoRef)
        /\ held' = NoRef
        /\ UNCHANGED comp

(***************************************************************************)
(* Actions on the component the caller holds                               *)
(***************************************************************************)
\* c = RelationshipComponent()
NewRelationship ==
    /\ comp' = RelationshipComponent(<<>>)
    /\ last' = Call("RelationshipComponent", 0, 0, TRUE, NoRef)
    /\ UNCHANGED <<calendarVars, worldVars, entityVars, store>>

\* c.set_relationship(entity_id, value)
SetRelationship(entity_id, value) ==
    /\ comp.component_type = "RELATIONSHIP"
    /\ comp' = set_relationship(comp, entity_id, value)
    /\ last' = Call("set_relationship", 0, entity_id, TRUE, NoRef)
    /\ UNCHANGED <<calendarVars, worldVars, entityVars, store>>

\* c = RelationshipComponent.from_dict(json.loads(json.dumps(c.to_dict())))
SaveLoadRelationship ==
    /\ comp.component_type = "RELATIONSHIP"
    /\ comp' = from_dict("RELATIONSHIP", json_component(to_dict(comp)))
    /\ last' = Call("RelationshipComponent.from_dict", 0, 0, TRUE, NoRef)
    /\ UNCHANGED <<calendarVars, worldVars, entityVars, store>>

\* c.modify_relationship(entity_id, delta)
ModifyRelationship(entity_id, delta) ==
    /\ comp.component_type = "RELATIONSHIP"
    /\ comp' = modify_relationship(comp, entity_id, delta)
    /\ last' = Call("modify_relationship", 0, entity_id, TRUE, NoRef)
    /\ UNCHANGED <<calendarVars, worldVars, entityVars, store>>

\* level = c.get_relationship_level(entity_id); last.list holds the text returned
GetRelationshipLevel(entity_id) ==
    /\ comp.component_type = "RELATIONSHIP"
    /\ last' = [Call("get_relationship_level", 0, entity_id, TRUE, NoRef) EXCEPT
                    !.list = <<get_relationship_level(comp, entity_id)>>]
    /\ UNCHANGED <<calendarVars, worldVars, entityVars, componentVars>>

\* c = NeedsComponent(hunger, energy, social)
NewNeeds(hunger, energy, social) ==
    /\ comp' = NeedsComponent(hunger, energy, social)
    /\ last' = Call("NeedsComponent", 0, 0, TRUE, NoRef)
    /\ UNCHANGED <<calendarVars, worldVars, entityVars, store>>

\* name = c.get_most_urgent_need(); last.list holds the text returned
GetMostUrgentNeed ==
    /\ comp.component_type = "NEEDS"
    /\ last' = [Call("get_most_urgent_need", 0, 0, TRUE, NoRef) EXCEPT
                    !.list = <<get_most_urgent_need(comp)>>]
    /\ UNCHANGED <<calendarVars, worldVars, entityVars, componentVars>>

\* c = MemoryComponent(memories, max_memories), passed as the component c
NewMemory(c) ==
    /\ comp' = c
    /\ last' = Call("MemoryComponent", 0, 0, TRUE, NoRef)
    /\ UNCHANGED <<calendarVars, worldVars, entityVars, store>>

\* c.add_memory(memory); last.list holds the record added
AddMemory(memory) ==
    /\ comp.component_type = "MEMORY"
    /\ comp' = add_memory(comp, memory)
    /\ last' = [Call("add_memory", 0, 0, TRUE, NoRef) EXCEPT !.list = <<memory>>]
    /\ UNCHANGED <<calendarVars, worldVars, entityVars, store>>

\* c = HealthComponent(current, maximum), passed as the component h
NewHealth(h) ==
    /\ comp' = h
    /\ last' = Call("HealthComponent", 0, 0, TRUE, NoRef)
    /\ UNCHANGED <<calendarVars, worldVars, entityVars, store>>

\* c.damage(amount)
Damage(amount) ==
    /\ comp.component_type = "HEALTH"
    /\ comp' = damage(comp, amount)
    /\ last' = Call("damage", 0, amount, TRUE, NoRef)
    /\ UNCHANGED <<calendarVars, worldVars, entityVars, store>>

\* c.heal(amount)
Heal(amount) ==
    /\ comp.component_type = "HEALTH"
    /\ comp' = heal(comp, amount)
    /\ last' = Call("heal", 0, amount, TRUE, NoRef)
    /\ UNCHANGED <<calendarVars, worldVars, entityVars, store>>

\* c.damage(amount); c.heal(amount)
DamageHeal(amount) ==
    /\ comp.component_type = "HEALTH"
    /\ comp' = heal(damage(comp, amount), amount)
    /\ last' = Call("damage; heal", 0, amount, TRUE, NoRef)
    /\ UNCHANGED <<calendarVars, worldVars, entityVars, store>>

\* c = CurrencyComponent(amount), passed as the component c
NewCurrency(c) ==
    /\ comp' = c
    /\ last' = Call("CurrencyComponent", 0, 0, TRUE, NoRef)
    /\ UNCHANGED <<calendarVars, worldVars, entityVars, store>>

\* c.add(value)
Add(value) ==
    /\ comp.component_type = "CURRENCY"
    /\ comp' = add(comp, value)
    /\ last' = Call("add", 0, value, TRUE, NoRef)
    /\ UNCHANGED <<calendarVars, worldVars, entityVars, store>>

\* c.remove(value)
Remove(value) ==
    /\ comp.component_type = "CURRENCY"
    /\ LET r == remove(comp, value)
       IN  /\ comp' = r.component
           /\ last' = Call("remove", 0, value, r.ret, NoRef)
    /\ UNCHANGED <<calendarVars, worldVars, entityVars, store>>

\* c = create_component_from_dict(data)
CreateComponentFromDict(data) ==
    /\ LET c == create_component_from_dict(data)
       IN  comp' = IF c = <<>> THEN NoComponent ELSE c[1]
    /\ last' = Call("create_component_from_dict", 0, 0, TRUE, NoRef)
    /\ UNCHANGED <<calendarVars, worldVars, entityVars, store>>

\* c = InventoryComponent(capacity=capacity): items is a dict object of its own
NewInventory(capacity) ==
    LET free == DictRefs \ UsedDicts(heap)
        d == CHOOSE q \in free : \A p \in free : q <= p
    IN  /\ free # {}
        /\ comp' = InventoryComponent(d, capacity)
        /\ store' = [q \in (DOMAIN store) \cup {d} |-> IF q = d THEN <<>> ELSE store[q]]
        /\ last' = Call("InventoryComponent", 0, 0, TRUE, NoRef)
        /\ UNCHANGED <<calendarVars, worldVars, entityVars>>

\* c.add_item(item_type, quantity)
InventoryAddItem(item_type, quantity) ==
    /\ comp.component_type = "INVENTORY"
    /\ LET r == add_item(store[comp.items], comp.capacity, item_type, quantity)
       IN  /\ store' = [store EXCEPT ![comp.items] = r.items]
           /\ last' = [Call("add_item", 0, quantity, r.ret, NoRef) EXCEPT
                           !.types = {item_type}]
    /\ UNCHANGED <<calendarVars, worldVars, entityVars, comp>>

\* c.remove_item(item_type, quantity)
InventoryRemoveItem(item_type, quantity) ==
    /\ comp.component_type = "INVENTORY"
    /\ LET r == remove_item(store[comp.items], item_type, quantity)
       IN  /\ store' = [store EXCEPT ![comp.items] = r.items]
           /\ last' = [Call("remove_item", 0, quantity, r.ret, NoRef) EXCEPT
                           !.types = {item_type}]
    /\ UNCHANGED <<calendarVars, worldVars, entityVars, comp>>

(***************************************************************************)
(* Specifications                                                          *)
(***************************************************************************)
\* the calendar of one GameState
NextCal ==
    \/ AdvanceTime
    \/ \E data \in StateRecords : GameStateFromDict(data)

SpecCal == Init /\ [][NextCal]_vars

\* entities, one manager and the player reference
Next ==
    \/ \E n \in Names, t \in {"Villager"} : NewEntity(n, t)
    \/ \E data \in {[id |-> k] : k \in Ids} : EntityFromDict(data)
    \/ \E n \in Names, t \in {"Villager"} : CreateEntity(1, n, t)
    \/ \E ref \in Refs : AddEntity(1, ref)
    \/ \E id \in Ids : RemoveEntity(1, id)
    \/ \E id \in Ids : GetEntity(1, id)
    \/ \E id \in Ids : SetPlayer(id)
    \/ GetPlayer

Spec == Init /\ [][Next]_vars

\* one manager saved and loaded into a second one
NextLoad ==
    \/ \E mi \in Managers, n \in Names, t \in {"Villager"} : CreateEntity(mi, n, t)
    \/ \E data \in EntityRecords : EntityFromDict(data)
    \/ \E ref \in Refs : AddEntity(1, ref)
    \/ \E ref \in Refs, c \in {HealthComponent(100, 100)} : AddComponent(ref, c)
    \/ \E id \in Ids : RemoveEntity(1, id)
    \/ \E src \in Managers : SaveLoadManager(src, 2)

SpecLoad == Init /\ [][NextLoad]_vars

\* the components of entities and the capability query of one manager
NextQuery ==
    \/ \E n \in Names, t \in {"Villager"} : CreateEntity(1, n, t)
    \/ \E ref \in Refs, c \in ComponentInputs : AddComponent(ref, c)
    \/ \E ref \in Refs, ct \in QueryVariants : RemoveComponent(ref, ct)
    \/ \E ref \in Refs, b \in BOOLEAN : SetActive(ref, b)
    \/ \E V \in SUBSET QueryVariants : QueryEntities(1, V)

SpecQuery == Init /\ [][NextQuery]_vars

\* the player reference of one GameState under every way of changing the state
NextPlayer ==
    \/ \E n \in Names, t \in {"Player"} : NewEntity(n, t)
    \/ \E n \in Names, t \in {"Player"} : CreateEntity(1, n, t)
    \/ \E ref \in Refs : AddEntity(1, ref)
    \/ \E id \in Ids : RemoveEntity(1, id)
    \/ Clear(1)
    \/ \E id \in Ids : SetPlayer(id)
    \/ GetPlayer
    \/ \E data \in PlayerRecords : GameStateFromDict(data)

SpecPlayer == Init /\ [][NextPlayer]_vars

\* a whole GameState saved and loaded, in memory and through a file; the caller
\* works on the entity it holds
NextState ==
    \/ GameStateFromDict(SavedWorld)
    \/ /\ Len(managers[1].entities) < StateEntities
       /\ \E n \in Names, t \in {"Player"} : CreateEntity(1, n, t)
    \/ \E c \in StateComponents : AddComponent(held, c)
    \/ SetActive(held, FALSE)
    \/ held # NoRef /\ SetPlayer(heap[held].id)
    \/ \E file \in BOOLEAN : SaveLoadState(file)

SpecState == Init /\ [][NextState]_vars

\* one relationship component set, saved as text and loaded
NextRel ==
    \/ NewRelationship
    \/ \E t \in Targets, v \in RelationshipValues : SetRelationship(t, v)
    \/ SaveLoadRelationship

SpecRel == Init /\ [][NextRel]_vars

\* inventories of a manager that is saved and loaded into a second manager
NextShare ==
    \/ \E n \in Names, t \in {"Villager"} : CreateEntity(1, n, t)
    \/ \E ref \in Refs : AddComponent(ref, InventoryComponent(NewDict, 20))
    \/ \E ref \in Refs, i \in ItemTypes, q \in Quantities : AddItem(ref, i, q)
    \/ SaveLoadManager(1, 2)

SpecShare == Init /\ [][NextShare]_vars

\* entities read from records whose component records carry any tag
NextTags == \E data \in TaggedRecords : EntityFromDict(data)

SpecTags == Init /\ [][NextTags]_vars

\* records with all fields or all fields but one absent read at every level
NextPartial ==
    \/ \E data \in SparseStates : GameStateFromDict(data)
    \/ \E data \in SparseEntities : EntityFromDict(data)
    \/ \E data \in SparseComponents : CreateComponentFromDict(data)

SpecPartial == Init /\ [][NextPartial]_vars

\* one HealthComponent under damage and heal with amounts in [0, MaxHealth]
NextHealth ==
    \/ \E h \in HealthInputs : NewHealth(h)
    \/ \E a \in HealthAmounts : Damage(a)
    \/ \E a \in HealthAmounts : Heal(a)
    \/ \E a \in HealthAmounts : DamageHeal(a)

SpecHealth == Init /\ [][NextHealth]_vars

\* one HealthComponent under damage and heal with any integer amount; current is
\* followed inside [-2 * MaxHealth, 2 * MaxHealth]
NextHealthAny ==
    \/ \E h \in HealthInputs : NewHealth(h)
    \/ /\ comp.component_type = "HEALTH"
       /\ comp.current \in (0 - 2 * MaxHealth)..(2 * MaxHealth)
       /\ \/ \E a \in AnyHealthAmounts : Damage(a)
          \/ \E a \in AnyHealthAmounts : Heal(a)

SpecHealthAny == Init /\ [][NextHealthAny]_vars

\* one CurrencyComponent under add and remove with any integer value; amount is
\* followed inside [-2 * MaxAmount, 2 * MaxAmount]
NextCurrency ==
    \/ \E c \in CurrencyInputs : NewCurrency(c)
    \/ /\ comp.component_type = "CURRENCY"
       /\ comp.amount \in (0 - 2 * MaxAmount)..(2 * MaxAmount)
       /\ \/ \E v \in CurrencyValues : Add(v)
          \/ \E v \in CurrencyValues : Remove(v)

SpecCurrency == Init /\ [][NextCurrency]_vars

\* one InventoryComponent under add_item and remove_item with any integer
\* quantity; every count is followed inside [-2 * MaxCapacity, 2 * MaxCapacity]
NextInventory ==
    \/ \E capacity \in Capacities : NewInventory(capacity)
    \/ /\ comp.component_type = "INVENTORY"
       /\ \A n \in SeqToSet(DictValues(store[comp.items])) :
              n \in (0 - 2 * MaxCapacity)..(2 * MaxCapacity)
       /\ \/ \E i \in ItemTypes, q \in ItemQuantities : InventoryAddItem(i, q)
          \/ \E i \in ItemTypes, q \in ItemQuantities : InventoryRemoveItem(i, q)

SpecInventory == Init /\ [][NextInventory]_vars

\* one relationship component under set_relationship and modify_relationship
\* with values and deltas on both sides of the clamp
NextClamp ==
    \/ NewRelationship
    \/ \E t \in ClampTargets, v \in RelationshipValues : SetRelationship(t, v)
    \/ \E t \in ClampTargets, delta \in Deltas : ModifyRelationship(t, delta)

SpecClamp == Init /\ [][NextClamp]_vars

\* the level of a stored and of a never stored target, for every stored value
NextLevel ==
    \/ NewRelationship
    \/ \E v \in LevelValues : SetRelationship(2, v)
    \/ \E t \in ClampTargets : GetRelationshipLevel(t)

SpecLevel == Init /\ [][NextLevel]_vars

\* the most urgent need of one NeedsComponent
NextNeeds ==
    \/ \E h \in NeedValues, e \in NeedValues, so \in NeedValues : NewNeeds(h, e, so)
    \/ GetMostUrgentNeed

SpecNeeds == Init /\ [][NextNeeds]_vars

\* one MemoryComponent under add_memory
NextMemory ==
    \/ \E c \in MemoryInputs : NewMemory(c)
    \/ \E memory \in Events : AddMemory(memory)

SpecMemory == Init /\ [][NextMemory]_vars

\* one manager under every operation that changes its two indexes, with
\* entities of two types and entities that bring an ID of their own
NextIndex ==
    \/ \E n \in Names, t \in EntityTypes : CreateEntity(1, n, t)
    \/ \E data \in TypedRecords : EntityFromDict(data)
    \/ \E ref \in Refs : AddEntity(1, ref)
    \/ \E id \in Ids : RemoveEntity(1, id)
    \/ Clear(1)
    \/ \E data \in IndexRecords : GameStateFromDict(data)

SpecIndex == Init /\ [][NextIndex]_vars

\* Entity._next_id under every operation that constructs, loads or removes
\* entities, over two managers
NextCounter ==
    \/ \E n \in Names, t \in {"Villager"} : NewEntity(n, t)
    \/ \E mi \in Managers, n \in Names, t \in {"Villager"} : CreateEntity(mi, n, t)
    \/ \E data \in {[id |-> k] : k \in Ids} : EntityFromDict(data)
    \/ \E mi \in Managers, ref \in Refs : AddEntity(mi, ref)
    \/ \E mi \in Managers, id \in Ids : RemoveEntity(mi, id)
    \/ \E mi \in Managers : Clear(mi)
    \/ \E src \in Managers, dst \in Managers : SaveLoadManager(src, dst)

SpecCounter == Init /\ [][NextCounter]_vars

\* the calendar advanced on a GameState that has weather, a player, and an
\* entity with components of its own
NextFrame ==
    \/ GameStateFromDict(SavedWorld)
    \/ /\ managers[1].entities = <<>>
       /\ \E n \in Names, t \in {"Player"} : CreateEntity(1, n, t)
    \/ \E c \in {PositionComponent("Farm", 3, 4), InventoryComponent(NewDict, 20)} :
          AddComponent(held, c)
    \/ AddItem(held, "wheat", 5)
    \/ held # NoRef /\ SetPlayer(heap[held].id)
    \/ SetWeather("stormy")
    \/ calls < FrameCalls /\ AdvanceTime

SpecFrame == Init /\ [][NextFrame]_vars

(***************************************************************************)
(* Claims                                                                  *)
(***************************************************************************)

\* C1 as stated: from the initial GameState, 112 advance_time calls yield
\* season = spring and year = 2.
C1_Original ==
    (~loaded /\ calls = 112) => (season = "spring" /\ year = 2)

\* C1 (amended): from the initial GameState, exactly 112 advance_time calls yield
\* season = summer and year = 1 with day_count = 29; season = spring with
\* year = 2 is first reached after exactly 444 calls.
C1_Amended ==
    ~loaded =>
        /\ calls = 112 => (season = "summer" /\ year = 1 /\ day_count = 29)
        /\ calls = 444 => (season = "spring" /\ year = 2)
        /\ (season = "spring" /\ year = 2) => calls >= 444

C1_Witness ==
    ~loaded /\ calls = 112 /\ time_of_day = "morning" /\ season = "summer"

\* C2: from any GameState whose time_of_day is morning, 1, 2 and 3 advance_time
\* calls give afternoon, evening and night with day_count unchanged, and the 4th
\* call gives morning with day_count increased by exactly 1.
C2_FourCallsOneDay ==
    time_of_day = "morning" =>
        /\ \A n \in 1..3 :
              /\ AdvanceN(Calendar, n).time_of_day = TimeOfDay_get_all[n + 1]
              /\ AdvanceN(Calendar, n).day_count = day_count
        /\ AdvanceN(Calendar, 4).time_of_day = "morning"
        /\ AdvanceN(Calendar, 4).day_count = day_count + 1

C2_Witness ==
    ~loaded /\ calls = 4 /\ time_of_day = "morning" /\ day_count = 2

\* the entity registered under id in manager m, taken from heap h
EntityOf(m, id, h) == h[DictGet(m.entities, id, NoRef)]

\* C3: m2 = EntityManager.from_dict(m.to_dict()) holds exactly the IDs of m, each
\* with the same name, type and component values; every ID of m2 is below
\* Entity._next_id, the counter never decreases, and every entity constructed
\* afterwards takes the counter's value as its ID, so it is strictly greater than
\* every ID held in m2.
C3_Step ==
    /\ next_id' >= next_id
    /\ last'.op \in {"Entity", "create_entity"} =>
          /\ heap'[last'.ref].id = next_id
          /\ next_id' = next_id + 1
    /\ last'.op = "EntityManager.from_dict" =>
          LET m == managers[last'.arg]
              m2 == managers'[last'.m]
          IN  /\ DictKeys(m2.entities) = DictKeys(m.entities)
              /\ Len(m2.entities) = Len(m.entities)
              /\ \A id \in DictKeys(m.entities) :
                    /\ EntityOf(m2, id, heap').id = id
                    /\ EntityOf(m2, id, heap').name = EntityOf(m, id, heap).name
                    /\ EntityOf(m2, id, heap').entity_type = EntityOf(m, id, heap).entity_type
                    /\ EntityOf(m2, id, heap').components = EntityOf(m, id, heap).components
              /\ \A id \in DictKeys(m2.entities) : id < next_id'

C3_IdContinuity == [][C3_Step]_vars

\* a manager saved and loaded whose entity carries an ID ahead of the counter it
\* was built under, and components
C3_Witness ==
    /\ last.op = "EntityManager.from_dict"
    /\ last.arg = 1
    /\ DictKeys(managers[2].entities) = DictKeys(managers[1].entities)
    /\ \E id \in DictKeys(managers[2].entities) :
          /\ id + 1 = next_id
          /\ EntityOf(managers[2], id, heap).components # <<>>
          /\ DictGet(managers[2].entities, id, NoRef) #
                DictGet(managers[1].entities, id, NoRef)

\* C4: create_entity returns an entity whose ID is held by no entity already in
\* the manager, and on return the entity is registered in both indexes.
C4_Step ==
    last'.op = "create_entity" =>
        LET m == managers[last'.m]
            m2 == managers'[last'.m]
            e == heap'[last'.ref]
        IN  /\ ~DictHas(m.entities, e.id)
            /\ get_entity(m2, e.id) = last'.ref
            /\ e.id \in SeqToSet(DictGet(m2.entities_by_type, e.entity_type, <<>>))

C4_CreateIsFreshAndRegistered == [][C4_Step]_vars

\* C5: an entity holds at most one component per variant; add_component of a
\* variant already present returns False and leaves the component map unchanged;
\* add_component of an absent variant returns True, attaches the component after
\* the ones already attached and sets its entity_id to the entity's ID.
C5_Step ==
    /\ \A ref \in DOMAIN heap' :
          LET comps == heap'[ref].components
          IN  /\ Cardinality(DictKeys(comps)) = Len(comps)
              /\ \A i \in 1..Len(comps) : comps[i].v.component_type = comps[i].k
    /\ \A ref \in Refs, c \in ComponentInputs :
          AddComponent(ref, c) =>
              LET before == heap[ref].components
                  after == heap'[ref].components
              IN  IF c.component_type \in DictKeys(before)
                  THEN /\ last'.ok = FALSE
                       /\ after = before
                       /\ heap' = heap
                  ELSE /\ last'.ok = TRUE
                       /\ Len(after) = Len(before) + 1
                       /\ SubSeq(after, 1, Len(before)) = before
                       /\ after[Len(after)].k = c.component_type
                       /\ after[Len(after)].v = [c EXCEPT !.entity_id = heap[ref].id]
                       /\ \A r \in (DOMAIN heap) \ {ref} : heap'[r] = heap[r]

C5_OneComponentPerVariant == [][C5_Step]_vars

\* a second Position was refused and the first one is still attached
C5_Witness ==
    /\ last.op = "add_component"
    /\ last.ok = FALSE
    /\ last.types = {"POSITION"}
    /\ DictGet(heap[last.arg].components, "POSITION", <<>>).location = "Farm"
    /\ DictGet(heap[last.arg].components, "POSITION", <<>>).entity_id = heap[last.arg].id
    /\ Len(heap[last.arg].components) = 2

\* the references of the entities registered in manager m
Registered(m) == SeqToSet(DictValues(m.entities))

\* C6: query_entities(V) returns exactly the entities of the manager that are
\* active and hold every variant of V, each once; an inactive entity is never
\* returned but stays retrievable through get_entity, get_all_entities and
\* get_entities_by_type.
C6_QueryExact ==
    /\ \A V \in SUBSET Variants :
          LET result == query_entities(managers[1], V, heap)
          IN  /\ SeqToSet(result) =
                    {ref \in Registered(managers[1]) :
                        heap[ref].active /\ V \subseteq DictKeys(heap[ref].components)}
              /\ Cardinality(SeqToSet(result)) = Len(result)
    /\ last.op = "query_entities" =>
          last.list = query_entities(managers[last.m], last.types, heap)
    /\ \A ref \in Registered(managers[1]) :
          /\ get_entity(managers[1], heap[ref].id) = ref
          /\ ref \in SeqToSet(get_all_entities(managers[1]))
          /\ ref \in SeqToSet(get_entities_by_type(managers[1], heap[ref].entity_type))

\* a query answered with one entity while an inactive entity matching it is left out
C6_Witness ==
    /\ last.op = "query_entities"
    /\ last.types = {"POSITION", "HEALTH"}
    /\ Len(last.list) = 1
    /\ \E ref \in Registered(managers[1]) :
          /\ ~heap[ref].active
          /\ last.types \subseteq DictKeys(heap[ref].components)
          /\ ref \notin SeqToSet(last.list)

\* the IDs listed under entity_type in the type index of m
TypeIndex(m, entity_type) == SeqToSet(DictGet(m.entities_by_type, entity_type, <<>>))

\* C7: add_entity with an entity whose ID is already in the manager returns False
\* and leaves the primary map and the type index unchanged (the entity under that
\* ID is not replaced, the new entity keeps its ID); with an absent ID it returns
\* True and registers the entity in both.
C7_Step ==
    \A ref \in Refs :
        AddEntity(1, ref) =>
            LET m == managers[1]
                m2 == managers'[1]
                e == heap[ref]
            IN  IF e.id \in DictKeys(m.entities)
                THEN /\ last'.ok = FALSE
                     /\ m2 = m
                     /\ heap' = heap
                ELSE /\ last'.ok = TRUE
                     /\ DictKeys(m2.entities) = DictKeys(m.entities) \cup {e.id}
                     /\ DictGet(m2.entities, e.id, NoRef) = ref
                     /\ e.id \in TypeIndex(m2, e.entity_type)
                     /\ heap' = heap

C7_AddEntityRefusesDuplicateId == [][C7_Step]_vars

\* add_entity refused an entity because another object holds its ID in the manager
C7_Witness ==
    /\ last.op = "add_entity"
    /\ last.ok = FALSE
    /\ DictHas(managers[1].entities, heap[last.arg].id)
    /\ DictGet(managers[1].entities, heap[last.arg].id, NoRef) # last.arg
    /\ heap[DictGet(managers[1].entities, heap[last.arg].id, NoRef)].entity_type
          # heap[last.arg].entity_type

\* C8: remove_entity(id) for a present ID returns True and deletes the entity from
\* the primary map and the type index: get_entity(id) is None afterwards, the
\* count drops by one and every other entity is untouched; for an absent ID it
\* returns False and changes nothing.
C8_Step ==
    \A id \in Ids :
        RemoveEntity(1, id) =>
            LET m == managers[1]
                m2 == managers'[1]
            IN  IF id \in DictKeys(m.entities)
                THEN /\ last'.ok = TRUE
                     /\ get_entity(m2, id) = NoRef
                     /\ \A t \in DictKeys(m2.entities_by_type) : id \notin TypeIndex(m2, t)
                     /\ count_entities(m2) = count_entities(m) - 1
                     /\ \A k \in DictKeys(m.entities) \ {id} :
                           /\ DictGet(m2.entities, k, NoRef) = DictGet(m.entities, k, NoRef)
                           /\ EntityOf(m2, k, heap') = EntityOf(m, k, heap)
                           /\ k \in TypeIndex(m2, EntityOf(m, k, heap).entity_type)
                     /\ DictKeys(m2.entities) = DictKeys(m.entities) \ {id}
                ELSE /\ last'.ok = FALSE
                     /\ m2 = m
                     /\ heap' = heap
                     /\ UNCHANGED <<calendarVars, worldVars, next_id, held>>

C8_RemoveEntity == [][C8_Step]_vars

\* an entity was removed and another one is still registered
C8_Witness ==
    /\ last.op = "remove_entity"
    /\ last.ok = TRUE
    /\ Len(managers[1].entities) = 1
    /\ ~DictHas(managers[1].entities, last.arg)
    /\ \A t \in DictKeys(managers[1].entities_by_type) :
          last.arg \notin TypeIndex(managers[1], t)

\* C9: set_player(id) changes player_id to id only if id resolves to an entity of
\* the manager; otherwise player_id keeps its prior value; nothing else changes.
C9_Step ==
    \A id \in Ids :
        SetPlayer(id) =>
            /\ player_id' = IF id \in DictKeys(managers[1].entities) THEN id ELSE player_id
            /\ UNCHANGED <<calendarVars, current_weather, entityVars>>

C9_SetPlayerOnlyIfResolves == [][C9_Step]_vars

\* set_player was called with an ID that does not resolve and the prior player stays
C9_Witness ==
    /\ last.op = "set_player"
    /\ ~DictHas(managers[1].entities, last.arg)
    /\ player_id # None
    /\ player_id # last.arg
    /\ DictHas(managers[1].entities, player_id)

\* C10: get_player resolves player_id through the manager at call time: it
\* returns None when player_id is unset or no longer in the manager, and
\* otherwise the entity currently registered under player_id.
C10_GetPlayerResolves ==
    last.op = "get_player" =>
        IF player_id # None /\ player_id \in DictKeys(managers[1].entities)
        THEN /\ last.ref # NoRef
             /\ \E i \in 1..Len(managers[1].entities) :
                   /\ managers[1].entities[i].k = player_id
                   /\ managers[1].entities[i].v = last.ref
        ELSE last.ref = NoRef

\* the player was set, its entity removed from the manager, and get_player
\* returned None although the caller still holds the entity object
C10_Witness ==
    /\ last.op = "get_player"
    /\ player_id # None
    /\ ~DictHas(managers[1].entities, player_id)
    /\ last.ref = NoRef
    /\ held # NoRef
    /\ heap[held].id = player_id

\* player_id is absent or the ID of an entity of the state's manager
PlayerResolves == player_id = None \/ DictHas(managers[1].entities, player_id)

\* C11 as stated: in every reachable GameState, player_id is either absent or
\* the ID of an entity that exists in the state's EntityManager.
C11_Original == PlayerResolves

\* C11 amended: player_id stops naming an entity of the manager only in a step
\* of remove_entity, clear or GameState.from_dict; set_player, create_entity,
\* add_entity and get_player never leave it without its entity.
C11_Step ==
    (PlayerResolves /\ ~PlayerResolves') =>
        last'.op \in {"remove_entity", "clear", "GameState.from_dict"}

C11_PlayerDanglesOnlyByRemoval == [][C11_Step]_vars

\* the player's entity was removed and player_id still holds its ID
C11_Witness ==
    /\ last.op = "remove_entity"
    /\ last.ok = TRUE
    /\ player_id = last.arg
    /\ ~DictHas(managers[1].entities, player_id)

\* C12: state = GameState.from_dict(state.to_dict()), in memory or through a
\* file, keeps day_count, time_of_day, season, year, current_weather and
\* player_id, keeps the entities' IDs in their order, and each entity keeps its
\* name, type, active flag and components with their field values; the player
\* resolves to the entity with the player's ID as before.
C12_Step ==
    last'.op \in {"from_dict(to_dict())", "load_from_file"} =>
        LET m == managers[1]
            m2 == managers'[1]
        IN  /\ State' = State
            /\ [i \in 1..Len(m2.entities) |-> m2.entities[i].k] =
                  [i \in 1..Len(m.entities) |-> m.entities[i].k]
            /\ \A id \in DictKeys(m.entities) :
                  EntityOf(m2, id, heap') = EntityOf(m, id, heap)
            /\ (get_player(player_id, m, heap) = NoRef) =
                  (get_player(player_id', m2, heap') = NoRef)
            /\ get_player(player_id, m, heap) # NoRef =>
                  heap'[get_player(player_id', m2, heap')].id = player_id

C12_StateRoundTrip == [][C12_Step]_vars

\* a state with its own calendar, two entities, an inactive one with a
\* relationship map, and a player was loaded back from a file
C12_Witness ==
    /\ last.op = "load_from_file"
    /\ day_count = 27
    /\ current_weather = "rainy"
    /\ Len(managers[1].entities) = 2
    /\ player_id # None
    /\ get_player(player_id, managers[1], heap) # NoRef
    /\ \E id \in DictKeys(managers[1].entities) :
          /\ ~EntityOf(managers[1], id, heap).active
          /\ DictHas(EntityOf(managers[1], id, heap).components, "RELATIONSHIP")

\* C13: after set_relationship(t, v), the component written with text keys and
\* read back has the int t as a key, not the text of t, and get_relationship(t)
\* on it returns v clamped to [-100, 100]; a component that is saved and loaded
\* keeps its whole map.
C13_Step ==
    /\ \A t \in Targets, v \in RelationshipValues :
          SetRelationship(t, v) =>
              LET record == json_component(to_dict(comp'))
                  c == from_dict("RELATIONSHIP", record)
              IN  /\ DictHas(record.relationships, StrKey(str(t)))
                  /\ ~DictHas(record.relationships, IntKey(t))
                  /\ DictHas(c.relationships, IntKey(t))
                  /\ ~DictHas(c.relationships, StrKey(str(t)))
                  /\ get_relationship(c, t) = get_relationship(comp', t)
                  /\ get_relationship(c, t) =
                        (IF v > 100 THEN 100 ELSE IF v < -100 THEN -100 ELSE v)
    /\ SaveLoadRelationship => comp'.relationships = comp.relationships

C13_RelationshipRoundTrip == [][C13_Step]_vars

\* a component with a clamped value under a negative target and a value under a
\* two-digit target came back from its text form
C13_Witness ==
    /\ last.op = "RelationshipComponent.from_dict"
    /\ comp.component_type = "RELATIONSHIP"
    /\ get_relationship(comp, -3) = -100
    /\ get_relationship(comp, 17) = 60
    /\ Len(comp.relationships) = 2

\* C14: EntityManager.from_dict leaves the manager that produced the record and
\* its entities as they were, the loaded entities share no dict object with
\* them, and add_item on a loaded entity leaves the inventories of the prior
\* manager's entities unchanged.
C14_Step ==
    /\ last'.op = "EntityManager.from_dict" =>
          /\ managers'[1] = managers[1]
          /\ \A r \in Registered(managers[1]) : heap'[r] = heap[r]
          /\ UsedDicts([r \in Registered(managers'[2]) |-> heap'[r]]) \cap
                UsedDicts([r \in Registered(managers'[1]) |-> heap'[r]]) = {}
    /\ (last'.op = "add_item" /\ last'.arg \in Registered(managers[2])) =>
          \A r \in Registered(managers[1]) :
              DictHas(heap[r].components, "INVENTORY") =>
                  Items(heap'[r], store') = Items(heap[r], store)

C14_LoadIsolated == [][C14_Step]_vars

StateDefaults ==
    [day_count |-> 1, time_of_day |-> "morning", season |-> "spring", year |-> 1,
     current_weather |-> "sunny", player_id |-> None]
EntityDefaults == [name |-> "Unnamed Entity", entity_type |-> "Generic", active |-> TRUE]
ComponentDefaults ==
    [position |-> [location |-> "Unknown", x |-> 0, y |-> 0],
     health |-> [current |-> 100, maximum |-> 100],
     inventory |-> [items |-> NewDict, capacity |-> 20],
     currency |-> [amount |-> 0],
     relationship |-> [relationships |-> <<>>],
     needs |-> [hunger |-> 50, energy |-> 100, social |-> 50],
     schedule |-> [schedule |-> <<>>],
     occupation |-> [occupation |-> "Villager", workplace |-> "None", skill_level |-> 1],
     memory |-> [memories |-> <<>>, max_memories |-> 50],
     goal |-> [current_goal |-> "None", goals |-> <<>>]]

\* the value of a field: the record's when the field is present, else the default
Field(data, f, default) == IF f \in DOMAIN data THEN data[f] ELSE default

\* C16: from_dict of a GameState, EntityManager, Entity or component record with
\* any fields or whole sections absent returns a result in which every field
\* that is present has the record's value and every absent field its default:
\* day_count 1, morning, spring, year 1, sunny, no player, no entities; name
\* "Unnamed Entity", type "Generic", active, no components, a new ID; the
\* defaults of the component's class.
C16_PartialRecords ==
    /\ \A data \in PartialStates :
          LET s == GameState_from_dict(data)
              time_data == Field(data, "time", EmptyRec)
              entities_data == Field(data, "entities", EmptyRec)
              st == EntityManager_from_dict(entities_data, <<>>, next_id)
          IN  /\ \A f \in {"day_count", "time_of_day", "season", "year"} :
                    s[f] = Field(time_data, f, StateDefaults[f])
              /\ s.current_weather =
                    Field(Field(data, "weather", EmptyRec), "current_weather",
                          StateDefaults.current_weather)
              /\ s.player_id =
                    Field(Field(data, "player", EmptyRec), "player_id",
                          StateDefaults.player_id)
              /\ Len(st.manager.entities) = Len(Field(entities_data, "entities", <<>>))
              /\ \A r \in Registered(st.manager) :
                    /\ st.heap[r].id = next_id
                    /\ \A f \in DOMAIN EntityDefaults :
                          st.heap[r][f] = EntityDefaults[f]
                    /\ st.heap[r].components = <<>>
    /\ \A data \in PartialEntities :
          LET e == Entity_from_dict(data, next_id)
          IN  /\ e.id = Field(data, "id", next_id)
              /\ \A f \in DOMAIN EntityDefaults : e[f] = Field(data, f, EntityDefaults[f])
              /\ e.components =
                    IF "components" \in DOMAIN data
                    THEN <<[k |-> "HEALTH",
                            v |-> [HealthComponent(100, 100) EXCEPT !.entity_id = e.id]]>>
                    ELSE <<>>
    /\ \A data \in PartialComponents :
          LET r == create_component_from_dict(data)
              defaults == ComponentDefaults[data.type]
          IN  /\ r # <<>>
              /\ r[1].component_type = COMPONENT_REGISTRY[data.type]
              /\ r[1].entity_id = None
              /\ DOMAIN r[1] = {"component_type", "entity_id"} \cup DOMAIN defaults
              /\ \A f \in DOMAIN defaults :
                    r[1][f] =
                        IF f = "relationships" /\ f \in DOMAIN data
                        THEN <<[k |-> IntKey(2), v |-> 60]>>
                        ELSE Field(data, f, defaults[f])

\* an entity read from a record with nothing but a name, a component read from
\* a record with nothing but its tag, and a state read from a record with
\* nothing but the season
C16_Witness ==
    /\ held # NoRef
    /\ heap[held].name = "Bob"
    /\ heap[held].entity_type = "Generic"
    /\ heap[held].active
    /\ heap[held].components = <<>>
    /\ comp = NeedsComponent(50, 100, 50)
    /\ loaded
    /\ season = "winter"
    /\ day_count = 1
    /\ time_of_day = "morning"
    /\ managers[1].entities = <<>>

\* C17 as stated: for a Health with 0 <= current <= maximum and every d with
\* 0 <= d <= maximum, damage(d) followed by heal(d) returns current to its
\* value before the damage.
C17_OriginalStep ==
    \A d \in HealthAmounts :
        (DamageHeal(d) /\ d <= comp.maximum) => comp'.current = comp.current

C17_Original == [][C17_OriginalStep]_vars

\* C17 amended: for a Health with 0 <= current <= maximum, damage(d) followed by
\* heal(d) returns current to its value before the damage for every d with
\* 0 <= d <= current; for current < d <= maximum it leaves current = d.
C17_Step ==
    \A d \in HealthAmounts :
        (DamageHeal(d) /\ d <= comp.maximum) =>
            /\ comp.current \in 0..comp.maximum
            /\ comp'.current = IF d <= comp.current THEN comp.current ELSE d
            /\ comp'.maximum = comp.maximum

C17_DamageHealRestores == [][C17_Step]_vars

\* damage(d); heal(d) with 0 < d was applied and current is below maximum and
\* not below d
C17_Witness ==
    /\ last.op = "damage; heal"
    /\ last.arg > 0
    /\ comp.current >= last.arg
    /\ comp.current < comp.maximum

\* C18: for a Health that starts with 0 <= current <= maximum, 0 <= current <=
\* maximum holds after any sequence of damage(a) and heal(a) with any integer a.
C18_HealthInvariant ==
    comp.component_type = "HEALTH" => (0 <= comp.current /\ comp.current <= comp.maximum)

\* C19: remove(b) with amount >= b >= 0 returns True and leaves amount - b;
\* remove(v) with v > amount returns False and leaves amount unchanged; remove
\* never makes the amount negative: after it, amount is unchanged or >= 0.
C19_Step ==
    \A v \in CurrencyValues :
        Remove(v) =>
            /\ (comp.amount >= v /\ v >= 0) =>
                  (last'.ok /\ comp'.amount = comp.amount - v)
            /\ v > comp.amount => (~last'.ok /\ comp'.amount = comp.amount)
            /\ comp'.amount >= 0 \/ comp'.amount = comp.amount
            /\ comp.amount >= 0 => comp'.amount >= 0

C19_RemoveAllOrNothing == [][C19_Step]_vars

\* remove of more than the positive amount was refused
C19_Witness ==
    /\ last.op = "remove"
    /\ ~last.ok
    /\ comp.amount > 0
    /\ last.arg > comp.amount

\* C20: for a Currency that starts with amount >= 0, amount >= 0 holds after any
\* sequence of add(v) and remove(v) with any integer v.
C20_CurrencyInvariant ==
    comp.component_type = "CURRENCY" => comp.amount >= 0

\* C21: add_item(item, q) on an inventory whose total count plus q exceeds the
\* capacity returns False and leaves the items map as it was, keys included;
\* otherwise it returns True, the count of item grows by exactly q (from 0 when
\* item was absent) and every other key and count is as before.
C21_Step ==
    (last'.op = "add_item" /\ comp.component_type = "INVENTORY") =>
            LET i == CHOOSE item_type \in last'.types : TRUE
                q == last'.arg
                before == store[comp.items]
                after == store'[comp'.items]
                total == sum(DictValues(before))
            IN  IF total + q > comp.capacity
                THEN ~last'.ok /\ after = before
                ELSE /\ last'.ok
                     /\ DictKeys(after) = DictKeys(before) \cup {i}
                     /\ DictGet(after, i, 0) = DictGet(before, i, 0) + q
                     /\ \A j \in DictKeys(before) \ {i} :
                            DictGet(after, j, 0) = DictGet(before, j, 0)

C21_AddItemAllOrNothing == [][C21_Step]_vars

\* an add_item over the capacity was refused on an inventory that holds another
\* item
C21_Witness ==
    /\ last.op = "add_item"
    /\ ~last.ok
    /\ last.types = {"seed"}
    /\ comp.component_type = "INVENTORY"
    /\ store[comp.items] = <<[k |-> "wheat", v |-> 2]>>
    /\ comp.capacity = 3
    /\ last.arg = 2

\* C22: for an inventory that starts empty, after any sequence of add_item and
\* remove_item with any integer quantities the sum of the counts is at most the
\* capacity and no count is negative.
C22_InventoryInvariant ==
    comp.component_type = "INVENTORY" =>
        /\ sum(DictValues(store[comp.items])) <= comp.capacity
        /\ \A n \in SeqToSet(DictValues(store[comp.items])) : n >= 0

\* C23: set_relationship(t, v) stores v clamped to [-100, 100] for t,
\* modify_relationship(t, delta) stores current + delta clamped to [-100, 100],
\* where current is the stored value of t or 0 for a target never stored, both
\* leave every other target as it was, and every stored value lies in
\* [-100, 100] after any sequence of the two.
Clamped(v) == IF v < -100 THEN -100 ELSE IF v > 100 THEN 100 ELSE v

C23_Step ==
    /\ \A t \in ClampTargets, v \in RelationshipValues :
            SetRelationship(t, v) =>
                /\ DictGet(comp'.relationships, IntKey(t), None) = Clamped(v)
                /\ \A u \in DictKeys(comp.relationships) \ {IntKey(t)} :
                       DictGet(comp'.relationships, u, 0) = DictGet(comp.relationships, u, 0)
    /\ \A t \in ClampTargets, delta \in Deltas :
            ModifyRelationship(t, delta) =>
                LET current == IF DictHas(comp.relationships, IntKey(t))
                               THEN DictGet(comp.relationships, IntKey(t), 0) ELSE 0
                IN  /\ DictHas(comp'.relationships, IntKey(t))
                    /\ DictGet(comp'.relationships, IntKey(t), 0) = Clamped(current + delta)
                    /\ \A u \in DictKeys(comp.relationships) \ {IntKey(t)} :
                           DictGet(comp'.relationships, u, 0) = DictGet(comp.relationships, u, 0)

C23_InRange ==
    comp.component_type = "RELATIONSHIP" =>
        \A v \in SeqToSet(DictValues(comp.relationships)) : v \in -100..100

C23_RelationshipClamped == []C23_InRange /\ [][C23_Step]_vars

\* modify_relationship of a target never stored went below the floor and was
\* clamped, next to a stored target at the ceiling
C23_Witness ==
    /\ last.op = "modify_relationship"
    /\ last.arg = 17
    /\ comp.component_type = "RELATIONSHIP"
    /\ comp.relationships = <<[k |-> IntKey(2), v |-> 100], [k |-> IntKey(17), v |-> -100]>>

\* C24: get_relationship_level gives every value v of [-100, 100] exactly one
\* band: enemy for v < -50, dislike for -50 <= v < -10, neutral for
\* -10 <= v < 10, friendly for 10 <= v < 50, friend for 50 <= v < 75 and
\* close_friend for v >= 75; a target with no stored value is read as 0 and is
\* neutral.
LevelRead == last.list[1]
ValueRead == IF DictHas(comp.relationships, IntKey(last.arg))
             THEN DictGet(comp.relationships, IntKey(last.arg), 0) ELSE 0

C24_LevelBands ==
    last.op = "get_relationship_level" =>
        /\ ValueRead \in -100..100
        /\ LevelRead \in {"enemy", "dislike", "neutral", "friendly", "friend", "close_friend"}
        /\ LevelRead = "enemy" <=> ValueRead \in -100..-51
        /\ LevelRead = "dislike" <=> ValueRead \in -50..-11
        /\ LevelRead = "neutral" <=> ValueRead \in -10..9
        /\ LevelRead = "friendly" <=> ValueRead \in 10..49
        /\ LevelRead = "friend" <=> ValueRead \in 50..74
        /\ LevelRead = "close_friend" <=> ValueRead \in 75..100
        /\ ~DictHas(comp.relationships, IntKey(last.arg)) => LevelRead = "neutral"

\* the level of a target never stored was read next to a stored target that is
\* not neutral
C24_Witness ==
    /\ last.op = "get_relationship_level"
    /\ last.arg = 17
    /\ comp.relationships = <<[k |-> IntKey(2), v |-> 74]>>
    /\ last.list = <<"neutral">>

\* C25 as stated: a value equal to -50, -10, 10 or 50 is in the lower of the two
\* adjacent bands (enemy, dislike, neutral, friendly), and 75 is close_friend.
C25_Original ==
    last.op = "get_relationship_level" =>
        /\ ValueRead = -50 => LevelRead = "enemy"
        /\ ValueRead = -10 => LevelRead = "dislike"
        /\ ValueRead = 10 => LevelRead = "neutral"
        /\ ValueRead = 50 => LevelRead = "friendly"
        /\ ValueRead = 75 => LevelRead = "close_friend"

\* C25: a value equal to a threshold is in the upper of the two adjacent bands
\* at every threshold: dislike at -50, neutral at -10, friendly at 10, friend
\* at 50 and close_friend at 75; one below the threshold is in the lower band.
C25_ThresholdInUpperBand ==
    last.op = "get_relationship_level" =>
        /\ ValueRead = -50 => LevelRead = "dislike"
        /\ ValueRead = -10 => LevelRead = "neutral"
        /\ ValueRead = 10 => LevelRead = "friendly"
        /\ ValueRead = 50 => LevelRead = "friend"
        /\ ValueRead = 75 => LevelRead = "close_friend"
        /\ ValueRead = -51 => LevelRead = "enemy"
        /\ ValueRead = -11 => LevelRead = "dislike"
        /\ ValueRead = 9 => LevelRead = "neutral"
        /\ ValueRead = 49 => LevelRead = "friendly"
        /\ ValueRead = 74 => LevelRead = "friend"

\* the level of a target stored at the threshold -50 was read
C25_Witness ==
    /\ last.op = "get_relationship_level"
    /\ last.arg = 2
    /\ comp.relationships = <<[k |-> IntKey(2), v |-> -50]>>
    /\ last.list = <<"dislike">>

\* C26: get_most_urgent_need returns the name of a need whose value is the
\* lowest of hunger, energy and social, and among the needs tied for the lowest
\* value it returns the first in the order hunger, energy, social.
NeedOrder == <<"hunger", "energy", "social">>

C26_MostUrgentIsLowest ==
    last.op = "get_most_urgent_need" =>
        LET name == last.list[1]
            i == CHOOSE j \in 1..3 : NeedOrder[j] = name
        IN  /\ name \in SeqToSet(NeedOrder)
            /\ \A k \in 1..3 : comp[name] <= comp[NeedOrder[k]]
            /\ \A k \in 1..(i - 1) : comp[NeedOrder[k]] > comp[name]

\* C27: for a Memory that starts with len(memories) <= max_memories,
\* len(memories) <= max_memories holds after any sequence of add_memory calls;
\* add_memory(m) leaves the last max_memories records of the old sequence
\* followed by m, in that order; on a Memory that is full it drops exactly the
\* first record and on one that is not full it drops none.
LastN(seq, n) == IF Len(seq) <= n THEN seq ELSE SubSeq(seq, Len(seq) - n + 1, Len(seq))

C27_Step ==
    (last'.op = "add_memory" /\ comp.component_type = "MEMORY") =>
        LET m == last'.list[1]
            all == comp.memories \o <<m>>
        IN  /\ comp'.max_memories = comp.max_memories
            /\ comp'.memories = LastN(all, comp.max_memories)
            /\ Len(comp.memories) < comp.max_memories =>
                  comp'.memories = all
            /\ Len(comp.memories) = comp.max_memories =>
                  /\ Len(comp'.memories) = comp.max_memories
                  /\ comp'.memories = Tail(all)

C27_Bounded ==
    comp.component_type = "MEMORY" => Len(comp.memories) <= comp.max_memories

C27_MemoryBoundedFifo == []C27_Bounded /\ [][C27_Step]_vars

\* a record was added to a full Memory of three records: the first was dropped
\* and the other two moved up
C27_Witness ==
    /\ last.op = "add_memory"
    /\ last.list = <<[event |-> "ate"]>>
    /\ comp.component_type = "MEMORY"
    /\ comp.max_memories = 3
    /\ comp.memories = <<[event |-> "met"], [event |-> "met"], [event |-> "ate"]>>

\* C28: for a GameState with a valid time_of_day and season, one advance_time
\* call adds exactly 1 to day_count if time_of_day was night and leaves it
\* otherwise; it moves season one step in the cycle spring, summer, fall,
\* winter, spring if day_count was increased and its new value is a multiple of
\* 28 and leaves it otherwise; it adds exactly 1 to year if that step was
\* winter to spring and leaves it otherwise.
ValidCalendar ==
    /\ time_of_day \in {"morning", "afternoon", "evening", "night"}
    /\ season \in {"spring", "summer", "fall", "winter"}

SeasonAfter ==
    [spring |-> "summer", summer |-> "fall", fall |-> "winter", winter |-> "spring"]

C28_Step ==
    (last'.op = "advance_time" /\ ValidCalendar) =>
        LET day_up == time_of_day = "night"
            season_up == day_up /\ day_count' % 28 = 0
            year_up == season_up /\ season = "winter"
        IN  /\ day_count' = IF day_up THEN day_count + 1 ELSE day_count
            /\ season' = IF season_up THEN SeasonAfter[season] ELSE season
            /\ year' = IF year_up THEN year + 1 ELSE year
            /\ year_up => season' = "spring"

C28_AdvanceTimeStep == [][C28_Step]_vars

\* one call took a GameState loaded at night of day 27 in winter to day 28,
\* spring and the next year
C28_Witness ==
    /\ last.op = "advance_time"
    /\ loaded /\ calls = 1
    /\ time_of_day = "morning" /\ day_count = 28
    /\ season = "spring" /\ year = 2

\* C29: from any valid state, one advance_time call changes day_count, season
\* and year by at most one step each; after a call that advanced the season, the
\* next call that advances it is the 112th, with exactly 28 day rollovers up to
\* it; after a call that increased the year, the next increase comes with the
\* 4th season advance; and 448 consecutive calls give the same time_of_day and
\* season with day_count + 112 and year + 1.
\* a run of advance_time calls from calendar c: the calendar reached, the calls
\* made, the day rollovers counted, and the calls (by number) that advanced the
\* season and that increased the year
Start(c) == [c |-> c, calls |-> 0, days |-> 0, seasons |-> <<>>, years |-> <<>>]

Count(run) ==
    LET n == advance_time(run.c)
    IN  [c |-> n,
         calls |-> run.calls + 1,
         days |-> IF n.day_count # run.c.day_count THEN run.days + 1 ELSE run.days,
         seasons |-> IF n.season # run.c.season
                     THEN Append(run.seasons, run.calls + 1) ELSE run.seasons,
         years |-> IF n.year # run.c.year
                   THEN Append(run.years, run.calls + 1) ELSE run.years]

\* k <= 28 more calls, and any number of calls made 28 at a time
RECURSIVE RunWeek(_, _)
RunWeek(run, k) ==
    IF k = 0 THEN run
    ELSE CHOOSE r \in {RunWeek(n, k - 1) : n \in {Count(run)}} : TRUE

RECURSIVE Run(_, _)
Run(run, k) ==
    IF k <= 28 THEN RunWeek(run, k)
    ELSE CHOOSE r \in {Run(n, k - 28) : n \in {RunWeek(run, 28)}} : TRUE

C29_NoSkipNoDoubleCount ==
    ValidCalendar =>
        \A n \in {advance_time(Calendar)} :
            /\ n.day_count \in {day_count, day_count + 1}
            /\ n.season \in {season, SeasonAfter[season]}
            /\ n.year \in {year, year + 1}
            /\ n.season # season =>
                  \A r \in {Run(Start(n), 112)} : r.seasons = <<112>> /\ r.days = 28
            /\ n.year # year =>
                  \A r \in {Run(Start(n), 448)} :
                      r.years = <<448>> /\ r.seasons = <<112, 224, 336, 448>>
            /\ \A r \in {Run(Start(Calendar), 448)} :
                  /\ r.c = [time_of_day |-> time_of_day, day_count |-> day_count + 112,
                            season |-> season, year |-> year + 1]
                  /\ r.days = 112 /\ Len(r.seasons) = 4 /\ Len(r.years) = 1

\* 448 calls were made on the initial GameState
C29_Witness ==
    /\ ~loaded /\ calls = 448
    /\ time_of_day = "morning" /\ day_count = 113
    /\ season = "spring" /\ year = 2

\* C30: after any sequence of create_entity, add_entity, remove_entity, clear
\* and EntityManager.from_dict, for every type t the list entities_by_type[t]
\* (empty when t has no list) is exactly the IDs of the primary map whose entity
\* has type t, each once, in the order of registration; so
\* count_entities_by_type(t) = len(get_entities_by_type(t)) and the counts of
\* all types sum to count_entities().
\* the IDs of the primary map in the order of registration
RegistrationOrder(m) == [i \in 1..Len(m.entities) |-> m.entities[i].k]

C30_TypeIndexConsistent ==
    \A mi \in Managers :
        LET m == managers[mi]
            types == DictKeys(m.entities_by_type)
                     \cup {heap[ref].entity_type : ref \in Registered(m)}
        IN  /\ \A t \in types :
                  /\ DictGet(m.entities_by_type, t, <<>>) =
                        SelectSeq(RegistrationOrder(m),
                                  LAMBDA id : EntityOf(m, id, heap).entity_type = t)
                  /\ count_entities_by_type(m, t) = Len(get_entities_by_type(m, t))
                  /\ \A i \in 1..Len(get_entities_by_type(m, t)) :
                         heap[get_entities_by_type(m, t)[i]].entity_type = t
            /\ sum([i \in 1..Len(m.entities_by_type) |-> Len(m.entities_by_type[i].v)])
                  = count_entities(m)

\* an entity was removed from a manager that keeps an entity of the other type
\* registered after it
C30_Witness ==
    /\ last.op = "remove_entity"
    /\ last.ok
    /\ Len(managers[1].entities) = 1
    /\ managers[1].entities_by_type =
          <<[k |-> "Villager", v |-> <<>>], [k |-> "Player", v |-> <<1>>]>>

\* C31: when Entity.from_dict returns an entity with ID k, whatever the counter
\* was, Entity._next_id is greater than k, so no entity constructed afterwards
\* takes the ID k.
C31_Step ==
    last'.op = "Entity.from_dict" => next_id' > heap'[last'.ref].id

C31_FromDictAdjustsCounter == [][C31_Step]_vars

\* C32: Entity._next_id never decreases; every construction (Entity(...),
\* create_entity, and the one inside Entity.from_dict) hands out the value of
\* the counter and adds exactly 1, so constructed entities get increasing IDs;
\* an ID that remove_entity or clear takes out of a manager is below the
\* counter, so that no later construction hands it out again.
C32_Step ==
    /\ next_id' >= next_id
    /\ last'.op \in {"Entity", "create_entity"} =>
          /\ heap'[last'.ref].id = next_id
          /\ next_id' = next_id + 1
    /\ last'.op = "Entity.from_dict" => next_id' = next_id + 1
    /\ (last'.op = "remove_entity" /\ last'.ok) => last'.arg < next_id'
    /\ last'.op = "clear" =>
          \A id \in DictKeys(managers[last'.m].entities) : id < next_id'

C32_CounterMonotonic == [][C32_Step]_vars

\* C33: an advance_time call leaves current_weather, player_id, the primary map
\* and the type index of the manager, every entity with its components and
\* their values, and the ID counter as they were; current_weather changes only
\* when the caller sets it or a GameState is loaded.
C33_Step ==
    /\ last'.op = "advance_time" =>
          /\ current_weather' = current_weather
          /\ player_id' = player_id
          /\ managers' = managers
          /\ heap' = heap
          /\ store' = store
          /\ next_id' = next_id
    /\ current_weather' # current_weather =>
          last'.op \in {"current_weather", "GameState.from_dict"}

C33_AdvanceTimeFrame == [][C33_Step]_vars

\* a call turned day, season and year on a GameState with weather set by the
\* caller, a player, and an inventory that holds items
C33_Witness ==
    /\ last.op = "advance_time"
    /\ day_count = 28 /\ season = "spring" /\ year = 4
    /\ current_weather = "stormy"
    /\ player_id # None
    /\ held # NoRef
    /\ DictHas(heap[held].components, "INVENTORY")
    /\ Items(heap[held], store) = <<[k |-> "wheat", v |-> 5]>>

====
